---- MODULE Spec2Model ----
(***************************************************************************)
(* A model of the ni virtual machine: the instruction interpreter          *)
(* (executor/src/executor/mod.rs) over the paged memory                    *)
(* (executor/src/memory.rs) and the typed numerics                         *)
(* (executor/src/primary.rs).                                              *)
(*                                                                         *)
(* Typed values are modelled as mathematical integers inside the range of  *)
(* their type; their little-endian byte images are what memory holds.      *)
(* Rust's Result<T, E> is a record [ok, val, err]; the `?` operator is an  *)
(* IF on `ok` that returns the error with the state reached so far.        *)
(***************************************************************************)
EXTENDS Integers, Sequences, FiniteSets, TLC

(***************************************************************************)
(* Bounds of the model.                                                    *)
(***************************************************************************)
\* Bytes in a machine word (UWord); the source builds with 4 (u32).
WordBytes == 2
\* The stack page's limit (Memory::from_limits' stack_limit).
StackLimit == 6
\* Largest frame size of a function in the function tables explored.
MaxFrameSize == 4
\* Cap on the call-stack depth explored.
MaxDepth == 3

WordBits == 8 * WordBytes
WordMod == 2 ^ WordBits
WordMax == WordMod - 1
HEAP_BASE == 2 ^ (WordBits \div 2)
HeapLimit == HEAP_BASE

WAdd(a, b) == (a + b) % WordMod

(***************************************************************************)
(* Results of fallible operations.                                         *)
(***************************************************************************)
NoOperand == [kind |-> "None", v |-> 0]

NoOp ==
    [op |-> "None", x |-> NoOperand, x_offset |-> NoOperand, y |-> NoOperand,
     y_offset |-> NoOperand, ot |-> "U8", ut |-> "U8", mode |-> "Wrap"]

OkR(v) == [ok |-> TRUE, val |-> v, err |-> [kind |-> "None", op |-> NoOp]]

ErrR(e) == [ok |-> FALSE, val |-> 0, err |-> e]

EndOfProgram == [kind |-> "EndOfProgram", op |-> NoOp]
UnknownFunction == [kind |-> "UnknownFunction", op |-> NoOp]
OperationOverflow == [kind |-> "OperationOverflow", op |-> NoOp]
DivisionByZero == [kind |-> "DivisionByZero", op |-> NoOp]
IncorrectOperation(o) == [kind |-> "IncorrectOperation", op |-> o]
SegmentationFault == [kind |-> "MemoryError(SegmentationFault)", op |-> NoOp]
PageOverflow == [kind |-> "MemoryError(PageOverflow)", op |-> NoOp]

(***************************************************************************)
(* Primary numerics.                                                       *)
(***************************************************************************)
OpTypes == {"U8", "I8", "U16", "I16", "Uw", "Iw"}

\* f32, whose value is kept as its IEEE-754 bit pattern read as an i32.
TypeFloat(t) == t = "F32"

TypeSize(t) ==
    CASE t \in {"U8", "I8"} -> 1
      [] t \in {"U16", "I16"} -> 2
      [] t \in {"U32", "I32", "F32"} -> 4
      [] t \in {"Uw", "Iw"} -> WordBytes

TypeSigned(t) == t \in {"I8", "I16", "I32", "Iw"}

TypeBits(t) == 8 * TypeSize(t)

TypeMin(t) == IF TypeSigned(t) THEN 0 - 2 ^ (TypeBits(t) - 1) ELSE 0

TypeMax(t) == IF TypeSigned(t) THEN 2 ^ (TypeBits(t) - 1) - 1 ELSE 2 ^ TypeBits(t) - 1

\* The next wider type used by Wide mode (exec_add::<u8, u16> ...).
WideType(t) ==
    CASE t = "U8" -> "U16"
      [] t = "I8" -> "I16"
      [] t = "U16" -> "U32"
      [] t = "I16" -> "I32"
      [] t = "Uw" -> "Uw"
      [] t = "Iw" -> "Iw"

\* Two's-complement wrap of the integer n into type t.
Wrap(t, n) ==
    IF TypeSigned(t) /\ n % (2 ^ TypeBits(t)) >= 2 ^ (TypeBits(t) - 1)
    THEN (n % (2 ^ TypeBits(t))) - 2 ^ TypeBits(t)
    ELSE n % (2 ^ TypeBits(t))

Saturate(t, n) ==
    IF n < TypeMin(t) THEN TypeMin(t) ELSE IF n > TypeMax(t) THEN TypeMax(t) ELSE n

InRange(t, n) == TypeMin(t) <= n /\ n <= TypeMax(t)

\* to_le_bytes: byte i of the two's-complement image.
to_bytes(t, n) == [i \in 1..TypeSize(t) |-> (n \div (256 ^ (i - 1))) % 256]

RECURSIVE LeSum(_)
LeSum(bytes) ==
    IF bytes = <<>> THEN 0 ELSE Head(bytes) + 256 * LeSum(Tail(bytes))

\* f32::from_le_bytes: the four bytes as a bit pattern, the top byte signed.
FloatFromBytes(slice) ==
    LeSum(SubSeq(slice, 1, 3))
        + (2 ^ 24) * (IF slice[4] >= 128 THEN slice[4] - 256 ELSE slice[4])

\* from_slice: the slice zero-padded to the type's size, read little-endian.
from_slice(t, slice) ==
    IF TypeFloat(t) THEN FloatFromBytes(slice) ELSE Wrap(t, LeSum(slice))

\* from_word: the low bytes of the word, zero-padded, read as t.
from_word(t, w) ==
    IF TypeSize(t) > WordBytes THEN w ELSE Wrap(t, w % (2 ^ TypeBits(t)))

zero == 0

one == 1

\* The bit pattern of -0.0.
NegZero == 0 - (2 ^ 30) - (2 ^ 30)

\* `y == T::zero()`: for f32 both +0.0 and -0.0 compare equal to zero.
IsZero(t, y) == IF TypeFloat(t) THEN y \in {zero, NegZero} ELSE y = zero

\* f32 `/` and `%` where the dividend is +0.0 and the divisor a positive,
\* finite, non-zero number: the result is +0.0.  Other quotients of floats
\* are not computed by this model.
FloatDivision(name, x, y) ==
    CASE x = zero /\ y > zero /\ y < 127 * (2 ^ 24) + 128 * (2 ^ 16) -> zero

(***************************************************************************)
(* Memory pages.                                                           *)
(***************************************************************************)
\* MemoryPage::expand
\* MemoryPage::expand, had it resized the page to size.
expand_to_size(page, limit, size) ==
    IF Len(page) + size > limit
    THEN ErrR(PageOverflow)
    ELSE OkR([i \in 1..size |-> IF i <= Len(page) THEN page[i] ELSE 0])

expand(page, limit, size) ==
    IF Len(page) + size > limit
    THEN ErrR(PageOverflow)
    ELSE OkR(page \o [i \in 1..size |-> 0])

\* MemoryPage::narrow
narrow(page, size) ==
    IF Len(page) < size
    THEN ErrR(PageOverflow)
    ELSE OkR(SubSeq(page, 1, Len(page) - size))

\* MemoryPage::get / get_mut, had the end of the range been excluded from
\* the page.
PageRangeOk_exclusive_end(page, ptr, size) ==
    LET end == WAdd(ptr, size)
    IN  ptr <= end /\ end < Len(page)

\* MemoryPage::get / get_mut: the range ptr .. ptr.wrapping_add(size).
PageRangeOk(page, ptr, size) ==
    LET end == WAdd(ptr, size)
    IN  ptr <= end /\ end <= Len(page)

\* Memory::slice / slice_mut: the page an address selects, and the offset in it.
OnStack(ptr) == ptr < HEAP_BASE

PageOf(memory, ptr) == IF OnStack(ptr) THEN memory.stack ELSE memory.heap

OffsetOf(ptr) == IF OnStack(ptr) THEN ptr ELSE ptr - HEAP_BASE

\* Memory::get::<T>
MemGet(memory, ptr, t) ==
    IF PageRangeOk(PageOf(memory, ptr), OffsetOf(ptr), TypeSize(t))
    THEN OkR(from_slice(t, SubSeq(PageOf(memory, ptr), OffsetOf(ptr) + 1,
                                  OffsetOf(ptr) + TypeSize(t))))
    ELSE ErrR(SegmentationFault)

WriteBytes(page, off, bytes) ==
    [i \in 1..Len(page) |->
        IF off < i /\ i <= off + Len(bytes) THEN bytes[i - off] ELSE page[i]]

\* Memory::set::<T>, had it taken the stack page for every address.
MemSet_stack_only(memory, ptr, t, val) ==
    IF PageRangeOk(memory.stack, OffsetOf(ptr), TypeSize(t))
    THEN OkR([memory EXCEPT !.stack = WriteBytes(@, OffsetOf(ptr), to_bytes(t, val))])
    ELSE ErrR(SegmentationFault)

\* Memory::set::<T>
MemSet(memory, ptr, t, val) ==
    IF PageRangeOk(PageOf(memory, ptr), OffsetOf(ptr), TypeSize(t))
    THEN OkR(IF OnStack(ptr)
             THEN [memory EXCEPT !.stack = WriteBytes(@, OffsetOf(ptr), to_bytes(t, val))]
             ELSE [memory EXCEPT !.heap = WriteBytes(@, OffsetOf(ptr), to_bytes(t, val))])
    ELSE ErrR(SegmentationFault)

WrongRange == [kind |-> "MemoryError(WrongRange)", op |-> NoOp]
HeapAlreadyUsed == [kind |-> "MemoryError(HeapAlreadyUsed)", op |-> NoOp]

\* Memory::from_limits: two empty pages with their limits and names.
from_limits(stack_limit, heap_limit) ==
    [stack |-> [page |-> <<>>, limit |-> stack_limit, name |-> "stack"],
     heap |-> [page |-> <<>>, limit |-> heap_limit, name |-> "heap"]]

\* A copy of size bytes from src to dest that moves one byte at a time from
\* the low end, reading bytes it has already written when the ranges overlap
\* with dest above src.
RECURSIVE ForwardCopy(_, _, _, _)
ForwardCopy(page, dest, src, size) ==
    IF size = 0 THEN page
    ELSE ForwardCopy([page EXCEPT ![dest + 1] = page[src + 1]], dest + 1, src + 1, size - 1)

\* MemoryPage::memmove, had it copied forward byte by byte.
memmove_forward(page, dest, src, size) ==
    IF src > WAdd(src, size) THEN ErrR(WrongRange)
    ELSE IF WAdd(src, size) > Len(page) THEN ErrR(SegmentationFault)
    ELSE IF WAdd(dest, size) > Len(page) THEN ErrR(SegmentationFault)
    ELSE OkR(ForwardCopy(page, dest, src, size))

\* MemoryPage::memmove.  copy_within panics when the destination range does
\* not fit, which the check of the wrapped dest_end lets through.
memmove(page, dest, src, size) ==
    IF src > WAdd(src, size) THEN ErrR(WrongRange)
    ELSE IF WAdd(src, size) > Len(page) THEN ErrR(SegmentationFault)
    ELSE IF WAdd(dest, size) > Len(page) THEN ErrR(SegmentationFault)
    ELSE IF dest + size > Len(page) THEN ErrR([kind |-> "Panic", op |-> NoOp])
    ELSE OkR(WriteBytes(page, dest, SubSeq(page, src + 1, src + size)))

\* Memory::copy
copy(memory, dest, src, size) ==
    LET on_stack(r) == IF r.ok THEN OkR([memory EXCEPT !.stack = r.val]) ELSE r
        on_heap(r) == IF r.ok THEN OkR([memory EXCEPT !.heap = r.val]) ELSE r
        across(to, from) ==
            IF ~PageRangeOk(PageOf(memory, to), OffsetOf(to), size)
            THEN ErrR(SegmentationFault)
            ELSE IF ~PageRangeOk(PageOf(memory, from), OffsetOf(from), size)
            THEN ErrR(SegmentationFault)
            ELSE OkR(WriteBytes(PageOf(memory, to), OffsetOf(to),
                                SubSeq(PageOf(memory, from), OffsetOf(from) + 1,
                                       OffsetOf(from) + size)))
    IN  IF OnStack(dest) = OnStack(src)
        THEN IF OnStack(dest)
             THEN on_stack(memmove(memory.stack, dest, src, size))
             ELSE on_heap(memmove(memory.heap, OffsetOf(dest), OffsetOf(src), size))
        ELSE IF OnStack(dest) THEN on_stack(across(dest, src))
        ELSE on_heap(across(dest, src))

\* reserve_global, had it not looked at the heap.
reserve_global_any_heap(memory, globals, heap_limit, size) ==
    LET reserved(r) ==
            IF ~r.ok THEN r
            ELSE OkR([memory |-> [memory EXCEPT !.heap = r.val],
                      globals |-> [reserved |-> TRUE, base |-> size]])
    IN  reserved(expand(memory.heap, heap_limit, size))

\* reserve_global: extends the empty heap by size zero bytes and records
\* the global base.
reserve_global(memory, globals, heap_limit, size) ==
    LET reserved(r) ==
            IF ~r.ok THEN r
            ELSE OkR([memory |-> [memory EXCEPT !.heap = r.val],
                      globals |-> [reserved |-> TRUE, base |-> size]])
    IN  IF memory.heap # <<>> THEN ErrR(HeapAlreadyUsed)
        ELSE reserved(expand(memory.heap, heap_limit, size))

(***************************************************************************)
(* Operands and instructions (common: Operand, UnOp, BinOp, Op).           *)
(***************************************************************************)
Loc(n) == [kind |-> "Loc", v |-> n]
Ind(n) == [kind |-> "Ind", v |-> n]
Ret(n) == [kind |-> "Ret", v |-> n]
Val(n) == [kind |-> "Val", v |-> n]
Ref(n) == [kind |-> "Ref", v |-> n]
Emp == [kind |-> "Emp", v |-> 0]

\* Operand::map
OperandMap(a, d) == IF a.kind = "Emp" THEN a ELSE [a EXCEPT !.v = WAdd(@, d)]

MkOp(name, x, xo, y, yo, t, u, m) ==
    [op |-> name, x |-> x, x_offset |-> xo, y |-> y, y_offset |-> yo,
     ot |-> t, ut |-> u, mode |-> m]

Nop == MkOp("Nop", NoOperand, NoOperand, NoOperand, NoOperand, "U8", "U8", "Wrap")
OpX(name, x) == MkOp(name, x, NoOperand, NoOperand, NoOperand, "Uw", "Uw", "Wrap")
OpUn(name, x, t, m) == MkOp(name, x, NoOperand, NoOperand, NoOperand, t, t, m)
OpUnOff(name, x, xo, t, m) == MkOp(name, x, xo, NoOperand, NoOperand, t, t, m)
OpBin(name, x, y, t, m) == MkOp(name, x, NoOperand, y, NoOperand, t, t, m)
OpBinOff(name, x, xo, y, yo, t, m) == MkOp(name, x, xo, y, yo, t, t, m)
RetOp == MkOp("Ret", NoOperand, NoOperand, NoOperand, NoOperand, "U8", "U8", "Wrap")

ArithBinOps == {"Add", "Sub", "Mul"}
ArithUnOps == {"Neg", "Inc", "Dec"}
DivisionOps == {"Div", "Mod"}
UnConditionals == {"Ift", "Iff"}
BinConditionals == {"Ife", "Ifl", "Ifg", "Ine", "Inl", "Ing"}
BitConditionals == {"Ifa", "Ifo", "Ifx", "Ina", "Ino", "Inx"}

\* Op::is_conditional
is_conditional(o) ==
    o.op \in UnConditionals \cup BinConditionals \cup BitConditionals \cup {"Cmp"}

(***************************************************************************)
(* The executor's state as a record, so that the steps of one execute call *)
(* can be composed: st.memory, st.program_counter, st.call_stack,          *)
(* st.prepared_call, st.parameter_ptr.  The function table is immutable.   *)
(***************************************************************************)
FunctionCall(f, base, ra, rpc) ==
    [function |-> f, base_address |-> base, ret_address |-> ra,
     ret_program_counter |-> rpc]

\* Executor::new
NewExecutor ==
    [memory |-> [stack |-> <<>>, heap |-> <<>>],
     program_counter |-> 0,
     call_stack |-> <<>>,
     prepared_call |-> FALSE,
     parameter_ptr |-> 0]

\* current_call always taking the top frame: the variant against which the
\* current-frame rule is checked.
current_call_top(st) ==
    IF st.call_stack # <<>> THEN OkR(st.call_stack[Len(st.call_stack)])
    ELSE ErrR(EndOfProgram)

\* Executor::current_call: the frame below the top while a call is prepared.
current_call(st) ==
    LET n == Len(st.call_stack)
    IN  IF st.prepared_call
        THEN IF n >= 2 THEN OkR(st.call_stack[n - 1]) ELSE ErrR(EndOfProgram)
        ELSE IF n >= 1 THEN OkR(st.call_stack[n]) ELSE ErrR(EndOfProgram)

\* Executor::current_op
current_op(fns, st) ==
    LET fetch(cc) ==
            IF ~cc.ok THEN ErrR(cc.err)
            ELSE IF st.program_counter < Len(fns[cc.val.function + 1].program)
            THEN OkR(fns[cc.val.function + 1].program[st.program_counter + 1])
            ELSE ErrR(EndOfProgram)
    IN  fetch(current_call(st))

\* IncorrectOperation(*self.current_op()?)
IncorrectHere(fns, st) ==
    LET here(cop) == IF cop.ok THEN IncorrectOperation(cop.val) ELSE cop.err
    IN  here(current_op(fns, st))

\* Executor::get_val::<T>
get_val(fns, st, operand, t) ==
    LET deref(p) == IF ~p.ok THEN ErrR(p.err) ELSE MemGet(st.memory, p.val, t)
        in(cc) ==
            CASE operand.kind = "Loc" ->
                   IF ~cc.ok THEN ErrR(cc.err)
                   ELSE MemGet(st.memory, WAdd(cc.val.base_address, operand.v), t)
              [] operand.kind = "Ind" ->
                   IF ~cc.ok THEN ErrR(cc.err)
                   ELSE deref(MemGet(st.memory, WAdd(cc.val.base_address, operand.v), "Uw"))
              [] operand.kind = "Ret" ->
                   IF ~cc.ok THEN ErrR(cc.err)
                   ELSE MemGet(st.memory, WAdd(cc.val.ret_address, operand.v), t)
              [] operand.kind = "Val" -> OkR(from_word(t, operand.v))
              [] operand.kind = "Ref" ->
                   IF ~cc.ok THEN ErrR(cc.err)
                   ELSE OkR(from_word(t, WAdd(cc.val.base_address, operand.v)))
              [] OTHER -> ErrR(IncorrectHere(fns, st))
    IN  in(current_call(st))

\* Executor::set_val::<T>: the memory after the store.
set_val(fns, st, operand, t, val) ==
    LET deref(p) == IF ~p.ok THEN ErrR(p.err) ELSE MemSet(st.memory, p.val, t, val)
        in(cc) ==
            CASE operand.kind = "Loc" ->
                   IF ~cc.ok THEN ErrR(cc.err)
                   ELSE MemSet(st.memory, WAdd(cc.val.base_address, operand.v), t, val)
              [] operand.kind = "Ind" ->
                   IF ~cc.ok THEN ErrR(cc.err)
                   ELSE deref(MemGet(st.memory, WAdd(cc.val.base_address, operand.v), "Uw"))
              [] operand.kind = "Ret" ->
                   IF ~cc.ok THEN ErrR(cc.err)
                   ELSE MemSet(st.memory, WAdd(cc.val.ret_address, operand.v), t, val)
              [] OTHER -> ErrR(IncorrectHere(fns, st))
    IN  in(current_call(st))

\* Executor::make_offset
make_offset(fns, st, a, offset) ==
    LET shift(d) == IF ~d.ok THEN ErrR(d.err) ELSE OkR(OperandMap(a, d.val))
    IN  shift(get_val(fns, st, offset, "Uw"))

\* Executor::read_un_operand
read_un_operand(fns, st, o) ==
    IF o.x_offset.kind # "None" THEN make_offset(fns, st, o.x, o.x_offset) ELSE OkR(o.x)

\* Executor::read_bin_operands
read_bin_operands(fns, st, o) ==
    LET both(left, right) ==
            IF ~left.ok THEN ErrR(left.err)
            ELSE IF ~right.ok THEN ErrR(right.err)
            ELSE OkR([left |-> left.val, right |-> right.val])
    IN  both(IF o.x_offset.kind # "None"
             THEN make_offset(fns, st, o.x, o.x_offset) ELSE OkR(o.x),
             IF o.y_offset.kind # "None"
             THEN make_offset(fns, st, o.y, o.y_offset) ELSE OkR(o.y))

\* Executor::get_un::<T>
get_un(fns, st, o, t) ==
    LET of(left) == IF ~left.ok THEN ErrR(left.err) ELSE get_val(fns, st, left.val, t)
    IN  of(read_un_operand(fns, st, o))

(***************************************************************************)
(* Typed arithmetic (primary.rs: Add, Sub, Mul, Div, Rem, Neg, Inc, Dec).  *)
(* A closure result is [val, flag]: flag is the closure's captured         *)
(* `overflowed` / `div_by_zero` variable.                                  *)
(***************************************************************************)
Exact(name, x, y) ==
    CASE name = "Add" -> x + y
      [] name = "Sub" -> x - y
      [] name = "Mul" -> x * y
      [] name = "Inc" -> x + one
      [] name = "Dec" -> x - one
      [] name = "Neg" -> 0 - x

Abs(n) == IF n < 0 THEN 0 - n ELSE n

\* Rust's integer division truncates toward zero.
TruncDiv(x, y) ==
    IF (x < 0) = (y < 0) THEN Abs(x) \div Abs(y) ELSE 0 - (Abs(x) \div Abs(y))

TruncRem(x, y) == x - y * TruncDiv(x, y)

\* The closures with Sat checked as Hand is: the variant against which the
\* modes that never overflow are checked.
ArithClosure_checked_sat(name, mode, t, x, y) ==
    CASE mode = "Wrap" -> [val |-> Wrap(t, Exact(name, x, y)), flag |-> FALSE]
      [] mode = "Wide" -> [val |-> Wrap(WideType(t), Exact(name, x, y)), flag |-> FALSE]
      [] mode \in {"Sat", "Hand"} ->
           IF InRange(t, Exact(name, x, y))
           THEN [val |-> Exact(name, x, y), flag |-> FALSE]
           ELSE [val |-> zero, flag |-> TRUE]

\* impl_exec_bin / impl_exec_un: the closure each arithmetic mode passes.
ArithClosure(name, mode, t, x, y) ==
    CASE mode = "Wrap" -> [val |-> Wrap(t, Exact(name, x, y)), flag |-> FALSE]
      [] mode = "Sat" ->
           [val |-> IF name = "Neg" THEN Wrap(t, Exact(name, x, y))
                    ELSE Saturate(t, Exact(name, x, y)),
            flag |-> FALSE]
      [] mode = "Wide" -> [val |-> Wrap(WideType(t), Exact(name, x, y)), flag |-> FALSE]
      [] mode = "Hand" ->
           IF InRange(t, Exact(name, x, y))
           THEN [val |-> Exact(name, x, y), flag |-> FALSE]
           ELSE [val |-> zero, flag |-> TRUE]

\* The division closure testing the dividend instead of the divisor: the
\* variant against which division-by-zero is checked.
DivisionClosure_zero_dividend(name, t, x, y) ==
    IF IsZero(t, x) \/ IsZero(t, y)
    THEN [val |-> zero, flag |-> IsZero(t, x)]
    ELSE [val |-> Wrap(t, IF name = "Div" THEN TruncDiv(x, y) ELSE TruncRem(x, y)),
          flag |-> FALSE]

\* update_bin_division's closure over wrapping_div / wrapping_rem.
DivisionClosure(name, t, x, y) ==
    IF IsZero(t, y)
    THEN [val |-> zero, flag |-> TRUE]
    ELSE IF TypeFloat(t)
    THEN [val |-> FloatDivision(name, x, y), flag |-> FALSE]
    ELSE [val |-> Wrap(t, IF name = "Div" THEN TruncDiv(x, y) ELSE TruncRem(x, y)),
          flag |-> FALSE]

\* The closure an instruction hands to update_bin / update_un.
Closure(o, x, y) ==
    CASE o.op \in ArithBinOps \cup ArithUnOps -> ArithClosure(o.op, o.mode, o.ot, x, y)
      [] o.op \in DivisionOps -> DivisionClosure(o.op, o.ot, x, y)
      [] o.op = "Set" -> [val |-> y, flag |-> FALSE]

\* The type the closure's result is stored as (U in update_bin::<T, U, _>).
StoreType(o) ==
    IF o.op \in ArithBinOps \cup ArithUnOps /\ o.mode = "Wide" THEN WideType(o.ot) ELSE o.ot

UpdR(ok, memory, err, flag) == [ok |-> ok, val |-> memory, err |-> err, flag |-> flag]

\* Executor::update_bin: set_val(left, f(get_val(left)?, get_val(right)?))
update_bin(fns, st, o) ==
    LET stored(w, c) ==
            IF w.ok THEN UpdR(TRUE, w.val, w.err, c.flag)
            ELSE UpdR(FALSE, st.memory, w.err, c.flag)
        applied(left, c) == stored(set_val(fns, st, left, StoreType(o), c.val), c)
        loaded(left, x, y) ==
            IF ~x.ok THEN UpdR(FALSE, st.memory, x.err, FALSE)
            ELSE IF ~y.ok THEN UpdR(FALSE, st.memory, y.err, FALSE)
            ELSE applied(left, Closure(o, x.val, y.val))
        read(ops) ==
            IF ~ops.ok THEN UpdR(FALSE, st.memory, ops.err, FALSE)
            ELSE loaded(ops.val.left, get_val(fns, st, ops.val.left, o.ot),
                        get_val(fns, st, ops.val.right, o.ot))
    IN  read(read_bin_operands(fns, st, o))

\* Executor::update_un: set_val(left, f(get_val(left)?))
update_un(fns, st, o) ==
    LET stored(w, c) ==
            IF w.ok THEN UpdR(TRUE, w.val, w.err, c.flag)
            ELSE UpdR(FALSE, st.memory, w.err, c.flag)
        applied(left, c) == stored(set_val(fns, st, left, StoreType(o), c.val), c)
        loaded(left, x) ==
            IF ~x.ok THEN UpdR(FALSE, st.memory, x.err, FALSE)
            ELSE applied(left, Closure(o, x.val, 0))
        read(left) ==
            IF ~left.ok THEN UpdR(FALSE, st.memory, left.err, FALSE)
            ELSE loaded(left.val, get_val(fns, st, left.val, o.ot))
    IN  read(read_un_operand(fns, st, o))

(***************************************************************************)
(* The value execute returns (Executed) and the state it leaves.           *)
(***************************************************************************)
NoErr == [kind |-> "None", op |-> NoOp]

Success == [status |-> "Ok", code |-> 0, err |-> NoErr]
EndWith(c) == [status |-> "End", code |-> c, err |-> NoErr]
SleepWith(c) == [status |-> "Sleep", code |-> c, err |-> NoErr]
Failure(e) == [status |-> "Err", code |-> 0, err |-> e]
NotRun == [status |-> "None", code |-> 0, err |-> NoErr]

Step(st, res) == [st |-> st, res |-> res]

\* The tail of execute: `if res.is_ok() { program_counter += 1 }`.
Advance(st) == [st EXCEPT !.program_counter = WAdd(@, 1)]

\* Executor::app on a stack page of limit stack_limit.
app_within(fns, st, function_id, stack_limit) ==
    LET grown(pushed, e) ==
            IF ~e.ok THEN Step(pushed, Failure(e.err))
            ELSE Step([pushed EXCEPT !.memory.stack = e.val], Success)
    IN  IF function_id >= Len(fns) THEN Step(st, Failure(UnknownFunction))
        ELSE grown([st EXCEPT
                      !.call_stack = Append(@, FunctionCall(function_id,
                                                Len(st.memory.stack), 0, 0)),
                      !.prepared_call = TRUE],
                   expand(st.memory.stack, stack_limit, fns[function_id + 1].frame_size))

\* Executor::app
app(fns, st, function_id) == app_within(fns, st, function_id, StackLimit)

\* clf with the return counter left at the Clf itself: the variant against
\* which the round trip's program counter is checked.
clf_same_counter(st, ret_address) ==
    IF st.call_stack = <<>> THEN Step(st, Failure(EndOfProgram))
    ELSE Step([st EXCEPT
                 !.call_stack[Len(st.call_stack)] =
                     [@ EXCEPT !.ret_address = ret_address,
                               !.ret_program_counter = st.program_counter],
                 !.prepared_call = FALSE,
                 !.program_counter = 0,
                 !.parameter_ptr = 0], Success)

\* Executor::clf
clf(st, ret_address) ==
    IF st.call_stack = <<>> THEN Step(st, Failure(EndOfProgram))
    ELSE Step([st EXCEPT
                 !.call_stack[Len(st.call_stack)] =
                     [@ EXCEPT !.ret_address = ret_address,
                               !.ret_program_counter = WAdd(st.program_counter, 1)],
                 !.prepared_call = FALSE,
                 !.program_counter = 0,
                 !.parameter_ptr = 0], Success)

\* Executor::call on a stack page of limit stack_limit.
call_within(fns, st, function_id, ret_address, stack_limit) ==
    LET then(a) == IF a.res.status # "Ok" THEN a ELSE clf(a.st, ret_address)
    IN  then(app_within(fns, st, function_id, stack_limit))

\* Executor::call
call(fns, st, function_id, ret_address) ==
    call_within(fns, st, function_id, ret_address, StackLimit)

\* Executor::ret
ret(fns, st) ==
    LET narrowed(popped, n) ==
            IF ~n.ok THEN Step(popped, Failure(n.err))
            ELSE Step([popped EXCEPT !.memory.stack = n.val], Success)
        pop(current_fn) ==
            narrowed([st EXCEPT
                        !.call_stack = SubSeq(@, 1, Len(@) - 1),
                        !.program_counter = current_fn.ret_program_counter],
                     narrow(st.memory.stack, fns[current_fn.function + 1].frame_size))
    IN  IF st.call_stack = <<>> THEN Step(st, Failure(EndOfProgram))
        ELSE pop(st.call_stack[Len(st.call_stack)])

\* pass_condition skipping one instruction only, conditional or not: the
\* variant against which the skipping of a whole chain is checked.
pass_condition_once(fns, st) ==
    LET look(next, cop) ==
            IF ~cop.ok THEN Step(next, Failure(cop.err))
            ELSE Step(Advance(next), Success)
        step(next) == look(next, current_op(fns, next))
    IN  step([st EXCEPT !.program_counter = WAdd(@, 1)])

\* Executor::pass_condition
RECURSIVE pass_condition(_, _)
pass_condition(fns, st) ==
    LET look(next, cop) ==
            IF ~cop.ok THEN Step(next, Failure(cop.err))
            ELSE IF ~is_conditional(cop.val) THEN Step(Advance(next), Success)
            ELSE pass_condition(fns, next)
        step(next) == look(next, current_op(fns, next))
    IN  step([st EXCEPT !.program_counter = WAdd(@, 1)])

(***************************************************************************)
(* Instruction handlers.                                                   *)
(***************************************************************************)
\* exec_add .. exec_dec (impl_exec_bin!, impl_exec_un!): the closure's value
\* is stored before the overflow flag is inspected.
exec_arith(fns, st, o) ==
    LET done(r) ==
            IF ~r.ok THEN Step(st, Failure(r.err))
            ELSE IF r.flag
            THEN Step([st EXCEPT !.memory = r.val], Failure(OperationOverflow))
            ELSE Step([st EXCEPT !.memory = r.val], Success)
    IN  done(IF o.op \in ArithBinOps THEN update_bin(fns, st, o) ELSE update_un(fns, st, o))

\* Executor::update_bin_division (exec_div, exec_mod)
update_bin_division(fns, st, o) ==
    LET done(r) ==
            IF r.flag THEN Step([st EXCEPT !.memory = r.val], Failure(DivisionByZero))
            ELSE IF ~r.ok THEN Step(st, Failure(r.err))
            ELSE Step([st EXCEPT !.memory = r.val], Success)
    IN  done(update_bin(fns, st, o))

\* Executor::exec_set
exec_set(fns, st, o) ==
    LET done(r) ==
            IF ~r.ok THEN Step(st, Failure(r.err))
            ELSE Step([st EXCEPT !.memory = r.val], Success)
    IN  done(update_bin(fns, st, o))

\* The bit pattern of a typed value.
Bits(t, n) == n % (2 ^ TypeBits(t))

RECURSIVE BitAnd(_, _)
BitAnd(a, b) ==
    IF a = 0 \/ b = 0 THEN 0
    ELSE (a % 2) * (b % 2) + 2 * BitAnd(a \div 2, b \div 2)

\* The comparison of exec_ife .. exec_inx on two values of type t.
Compare(name, t, x, y) ==
    CASE name = "Ife" -> x = y
      [] name = "Ifl" -> x < y
      [] name = "Ifg" -> x > y
      [] name = "Ine" -> x # y
      [] name = "Inl" -> x >= y
      [] name = "Ing" -> x <= y
      [] name = "Ifa" -> BitAnd(Bits(t, x), Bits(t, y)) # zero
      [] name = "Ifo" -> x # zero \/ y # zero
      [] name = "Ifx" -> x # y
      [] name = "Ina" -> BitAnd(Bits(t, x), Bits(t, y)) = zero
      [] name = "Ino" -> x = zero /\ y = zero
      [] name = "Inx" -> x = y

\* The `res` of a conditional arm of execute: Ift/Iff over get_un, the
\* others over exec_ife .. exec_inx.
condition(fns, st, o) ==
    LET un(x) ==
            IF ~x.ok THEN ErrR(x.err)
            ELSE OkR(IF o.op = "Ift" THEN x.val # zero ELSE x.val = zero)
        compared(x, y) ==
            IF ~x.ok THEN ErrR(x.err)
            ELSE IF ~y.ok THEN ErrR(y.err)
            ELSE OkR(Compare(o.op, o.ot, x.val, y.val))
        bin(ops) ==
            IF ~ops.ok THEN ErrR(ops.err)
            ELSE compared(get_val(fns, st, ops.val.left, o.ot),
                          get_val(fns, st, ops.val.right, o.ot))
    IN  IF o.op \in UnConditionals
        THEN un(get_un(fns, st, o, o.ot))
        ELSE bin(read_bin_operands(fns, st, o))

\* exec_par taking the frame size from the top (prepared) frame: the variant
\* against which the destination of a parameter is checked.
exec_par_top_frame(fns, st, o) ==
    LET written(moved, w) ==
            IF ~w.ok THEN Step(moved, Failure(w.err))
            ELSE Step([moved EXCEPT !.memory = w.val], Success)
        passed(moved, parameter_loc, val) ==
            IF ~val.ok THEN Step(moved, Failure(val.err))
            ELSE written(moved, set_val(fns, moved, Loc(parameter_loc), o.ot, val.val))
        at(moved, parameter_loc) ==
            CASE o.mode = "Set" -> passed(moved, parameter_loc, get_un(fns, moved, o, o.ot))
              [] o.mode = "Emp" -> Step(moved, Success)
              [] o.mode = "Zer" ->
                   written(moved, set_val(fns, moved, Loc(parameter_loc), o.ot, zero))
        in(cc) ==
            IF ~cc.ok THEN Step(st, Failure(cc.err))
            ELSE at([st EXCEPT !.parameter_ptr = WAdd(@, TypeSize(o.ot))],
                    WAdd(st.parameter_ptr,
                         fns[st.call_stack[Len(st.call_stack)].function + 1].frame_size))
    IN  in(current_call(st))

\* Executor::exec_par::<T>
exec_par(fns, st, o) ==
    LET written(moved, w) ==
            IF ~w.ok THEN Step(moved, Failure(w.err))
            ELSE Step([moved EXCEPT !.memory = w.val], Success)
        passed(moved, parameter_loc, val) ==
            IF ~val.ok THEN Step(moved, Failure(val.err))
            ELSE written(moved, set_val(fns, moved, Loc(parameter_loc), o.ot, val.val))
        at(moved, parameter_loc) ==
            CASE o.mode = "Set" -> passed(moved, parameter_loc, get_un(fns, moved, o, o.ot))
              [] o.mode = "Emp" -> Step(moved, Success)
              [] o.mode = "Zer" ->
                   written(moved, set_val(fns, moved, Loc(parameter_loc), o.ot, zero))
        in(cc) ==
            IF ~cc.ok THEN Step(st, Failure(cc.err))
            ELSE at([st EXCEPT !.parameter_ptr = WAdd(@, TypeSize(o.ot))],
                    WAdd(st.parameter_ptr, fns[cc.val.function + 1].frame_size))
    IN  in(current_call(st))

\* The tail of execute moving the counter only after ExecutionSuccess::Ok:
\* the variant against which End and Slp are checked.
Finish_ok_only(r) == IF r.res.status # "Ok" THEN r ELSE Step(Advance(r.st), r.res)

\* The tail of execute after a `res`: the counter moves only when res is Ok.
Finish(r) == IF r.res.status = "Err" THEN r ELSE Step(Advance(r.st), r.res)

\* The arms of the match in Executor::execute, each on the fetched
\* instruction o.
\* End(x) and Slp(x)
execute_end(fns, st, o) ==
    LET done(val) ==
            IF ~val.ok THEN Step(st, Failure(val.err))
            ELSE Finish(Step(st, IF o.op = "End" THEN EndWith(val.val)
                                 ELSE SleepWith(val.val)))
    IN  done(get_val(fns, st, o.x, "Uw"))

\* Go(x), had it gone on to the next instruction.
execute_go_falls_through(fns, st, o) ==
    LET done(val) ==
            IF ~val.ok THEN Step(st, Failure(val.err))
            ELSE Finish(Step(st, Success))
    IN  done(get_val(fns, st, o.x, "Uw"))

\* Go(x)
execute_go(fns, st, o) ==
    LET done(val) ==
            IF ~val.ok THEN Step(st, Failure(val.err))
            ELSE Step([st EXCEPT !.program_counter = val.val], Success)
    IN  done(get_val(fns, st, o.x, "Uw"))

\* Ift .. Inx
execute_conditional(fns, st, o) ==
    LET done(res) ==
            IF ~res.ok THEN Step(st, Failure(res.err))
            ELSE IF res.val THEN Finish(Step(st, Success))
            ELSE pass_condition(fns, st)
    IN  done(condition(fns, st, o))

\* App(x) on a stack page of limit stack_limit.
execute_app_within(fns, st, o, stack_limit) ==
    LET done(val) ==
            IF ~val.ok THEN Step(st, Failure(val.err))
            ELSE Finish(app_within(fns, st, val.val, stack_limit))
    IN  done(get_val(fns, st, o.x, "Uw"))

\* App(x)
execute_app(fns, st, o) == execute_app_within(fns, st, o, StackLimit)

\* Clf(x)
execute_clf(fns, st, o) ==
    LET done(val) ==
            IF ~val.ok THEN Step(st, Failure(val.err)) ELSE clf(st, val.val)
    IN  done(get_val(fns, st, o.x, "Uw"))

(***************************************************************************)
(* Function tables explored.  The programs are those of the executor's     *)
(* tests (tests.rs), scaled to one- and two-byte types, and programs that  *)
(* drive each instruction into each of its error returns.                  *)
(***************************************************************************)
\* Cap on parameter_ptr at which Par is still explored.
MaxParameterPtr == 4
\* Cap on program_counter at which the host still calls a function.
MaxReentryPc == 1

Function(size, prog) == [frame_size |-> size, program |-> prog]

App(x) == OpX("App", x)
Clf(x) == OpX("Clf", x)
Go(x) == OpX("Go", x)
End(x) == OpX("End", x)
Slp(x) == OpX("Slp", x)
Par(x, t, m) == OpUn("Par", x, t, m)
SetOp(x, y, t) == OpBin("Set", x, y, t, "Wrap")
Ift(x, t) == OpUn("Ift", x, t, "Wrap")
Iff(x, t) == OpUn("Iff", x, t, "Wrap")
If(name, x, y, t) == OpBin(name, x, y, t, "Wrap")

\* tests.rs executor_call_fn: the caller and the callee.
MainCall == <<App(Val(1)), Par(Val(2), "U8", "Set"), Clf(Val(0)), RetOp>>
CalleeAdd == <<OpBin("Add", Ret(0), Loc(0), "U8", "Wrap"), RetOp>>

\* A caller passing two parameters of different sizes to a function that
\* itself calls a leaf.
MainTwo ==
    <<App(Val(1)), Par(Val(7), "U8", "Set"), Par(Val(258), "U16", "Set"),
      Clf(Val(0)), RetOp>>
Mid ==
    <<App(Val(2)), Par(Loc(0), "U8", "Set"), Clf(Ref(1)),
      OpUn("Inc", Loc(0), "U8", "Hand"), RetOp>>
Leaf == <<OpBin("Add", Ret(0), Loc(0), "U8", "Sat"), RetOp>>

\* Par before App, a zeroed parameter, App twice in a row, Clf with no
\* prepared frame, unbounded recursion.
MainStray ==
    <<Par(Val(0), "U8", "Emp"), App(Val(1)), Par(Val(2), "U8", "Set"),
      Clf(Val(0)), RetOp>>
MainZer == <<App(Val(1)), Par(Val(0), "U16", "Zer"), Clf(Val(0)), Slp(Val(3)), End(Val(1))>>
MainDouble == <<App(Val(1)), App(Val(1))>>
Resume == <<Nop, RetOp, Clf(Val(0)), RetOp>>
SelfClf == <<Ift(Loc(0), "U8"), RetOp, OpUn("Inc", Loc(0), "U8", "Wrap"), Clf(Val(0))>>
Recurse == <<App(Val(0)), Clf(Val(0)), RetOp>>
\* Ret while the frame App pushed is still prepared.
Abandon == <<App(Val(1)), RetOp>>
\* Instructions after an End.
Halt == <<End(Val(0)), OpUn("Inc", Loc(0), "U8", "Wrap"), RetOp>>

\* tests.rs executor_ift .. executor_inx: chains of conditionals.
Chains ==
    <<Ift(Val(0), "U8"), Ift(Val(1), "U8"), Nop, Nop,
      If("Ifl", Val(1), Val(1), "U8"), If("Ifa", Val(1), Val(2), "U8"),
          OpUn("Inc", Loc(0), "U8", "Wrap"), Nop,
      Ift(Val(1), "U8"), Iff(Val(1), "U8"), OpUn("Inc", Loc(0), "U8", "Wrap"), Nop,
      If("Ife", Val(1), Val(1), "I8"), If("Ino", Val(0), Val(0), "U8"),
          OpUn("Inc", Loc(0), "U8", "Wrap"), Nop,
      If("Ifg", Val(0), Val(1), "U8")>>
CountDown ==
    <<SetOp(Loc(0), Val(2), "U8"), OpUn("Dec", Loc(0), "U8", "Hand"),
      Ift(Loc(0), "U8"), Go(Val(1)), End(Loc(0))>>

\* tests.rs executor_add/_mul/_div .. : the arithmetic modes and their errors.
Sums ==
    <<SetOp(Loc(0), Val(200), "U8"), OpBin("Add", Loc(0), Val(100), "U8", "Hand"),
      OpBin("Add", Loc(0), Val(200), "U8", "Wide"),
      OpBin("Div", Loc(1), Val(0), "U8", "Wrap"), RetOp>>
Signed ==
    <<SetOp(Loc(0), Val(3), "I8"), OpUn("Neg", Loc(0), "I8", "Wrap"),
      OpBin("Mul", Loc(0), Val(100), "I8", "Sat"), OpUn("Neg", Loc(0), "U8", "Hand"),
      OpBin("Sub", Loc(0), Val(7), "I8", "Wrap"),
      OpBin("Div", Loc(0), Val(2), "I8", "Wrap"),
      OpBin("Mod", Loc(0), Loc(1), "I8", "Wrap")>>

\* Instructions rejected outright.
Rejected == <<SetOp(Val(0), Val(1), "U8")>>
Unknown == <<App(Val(9))>>

\* Destinations that cannot be written, under a sum that overflows, a
\* divisor that is zero and a source that cannot be read.
UnwritableSum == <<OpBin("Add", Val(200), Val(100), "U8", "Hand")>>
UnwritableDiv == <<OpBin("Div", Val(1), Val(0), "U8", "Wrap")>>
UnwritableSet == <<SetOp(Ref(0), Loc(HEAP_BASE - 1), "U8")>>

\* Sat mode at both ends of u8, and Wide mode on i8 and on the word type.
Clamped ==
    <<SetOp(Loc(0), Val(5), "U8"), OpUn("Neg", Loc(0), "U8", "Sat"),
      OpBin("Add", Loc(0), Val(10), "U8", "Sat"), OpUn("Inc", Loc(0), "U8", "Sat"),
      OpUn("Dec", Loc(1), "U8", "Sat"), OpBin("Sub", Loc(1), Val(3), "U8", "Sat"),
      OpBin("Mul", Loc(0), Val(2), "U8", "Sat")>>
Widened ==
    <<SetOp(Loc(0), Val(100), "I8"), OpBin("Mul", Loc(0), Val(100), "I8", "Wide"),
      SetOp(Loc(0), Val(WordMax), "Uw"), OpBin("Add", Loc(0), Val(1), "Uw", "Wide")>>

\* Div and Mod on f32: a non-zero divisor, then a zero divisor.
Floats ==
    <<OpBin("Mod", Loc(0), Val(1), "F32", "Wrap"),
      OpBin("Div", Loc(0), Val(0), "F32", "Wrap")>>

ProgramPairs ==
    {<<MainCall, CalleeAdd>>, <<MainStray, CalleeAdd>>, <<MainZer, CalleeAdd>>,
     <<MainDouble, Resume>>, <<Recurse, SelfClf>>, <<Abandon, Halt>>, <<Chains, CountDown>>,
     <<Sums, Signed>>, <<Rejected, Unknown>>, <<UnwritableSum, UnwritableDiv>>,
     <<Clamped, Widened>>, <<Floats, UnwritableSet>>}

ProgramTriples == {<<MainTwo, Mid, Leaf>>}

FrameSizes == 0..MaxFrameSize

Tables ==
    {<<Function(a, p[1]), Function(b, p[2])>> :
        a \in FrameSizes, b \in FrameSizes, p \in ProgramPairs}
    \cup
    {<<Function(a, p[1]), Function(b, p[2]), Function(c, p[3])>> :
        a \in FrameSizes, b \in FrameSizes, c \in FrameSizes, p \in ProgramTriples}

(***************************************************************************)
(* The byte code.  The encoder writes an Op as its op code followed by a   *)
(* meta byte and operands; the decoder reads one Op from the front of a    *)
(* byte sequence.  An encoding is OkR(bytes) or ErrR("Panic"); a decoding  *)
(* is OkR of the decoded value and the bytes left unread, or ErrR of the   *)
(* DecodeError (or "Panic").                                               *)
(***************************************************************************)
\* Operand::as_byte
as_byte(a) ==
    CASE a.kind = "Loc" -> 0
      [] a.kind = "Ind" -> 1
      [] a.kind = "Ret" -> 2
      [] a.kind = "Val" -> 3
      [] a.kind = "Ref" -> 4
      [] a.kind = "Glb" -> 5
      [] a.kind = "Emp" -> 6

\* Operand::new
OperandNew(val, kind) ==
    CASE kind = 0 -> OkR(Loc(val))
      [] kind = 1 -> OkR(Ind(val))
      [] kind = 2 -> OkR(Ret(val))
      [] kind = 3 -> OkR(Val(val))
      [] kind = 4 -> OkR(Ref(val))
      [] kind = 5 -> OkR([kind |-> "Glb", v |-> val])
      [] kind = 6 -> OkR(Emp)
      [] OTHER -> ErrR("UndefinedOperation(Kind)")

\* OpType::as_byte
OpTypeByte(t) ==
    CASE t = "U8" -> 0 [] t = "I8" -> 1 [] t = "U16" -> 2 [] t = "I16" -> 3
      [] t = "U32" -> 4 [] t = "I32" -> 5 [] t = "U64" -> 6 [] t = "I64" -> 7
      [] t = "Uw" -> 8 [] t = "Iw" -> 9 [] t = "F32" -> 11 [] t = "F64" -> 13

CodecTypes ==
    {"U8", "I8", "U16", "I16", "U32", "I32", "U64", "I64", "Uw", "Iw", "F32", "F64"}

\* OpType::new, had it taken the reserved tags 10 and 12 for the float
\* types next to them.
OpTypeNew_reserved_as_float(b) ==
    IF b = 10 THEN OkR("F32")
    ELSE IF b = 12 THEN OkR("F64")
    ELSE IF \E t \in CodecTypes : OpTypeByte(t) = b
    THEN OkR(CHOOSE t \in CodecTypes : OpTypeByte(t) = b)
    ELSE ErrR("UndefinedOperation(OpType)")

\* OpType::new
OpTypeNew(b) ==
    IF \E t \in CodecTypes : OpTypeByte(t) = b
    THEN OkR(CHOOSE t \in CodecTypes : OpTypeByte(t) = b)
    ELSE ErrR("UndefinedOperation(OpType)")

\* ArithmeticMode::as_byte and ParameterMode::as_byte
ModeByte(o) ==
    IF o.op = "Par"
    THEN CASE o.mode = "Set" -> 0 [] o.mode = "Emp" -> 1 [] o.mode = "Zer" -> 2
    ELSE CASE o.mode = "Wrap" -> 0 [] o.mode = "Sat" -> 1
           [] o.mode = "Wide" -> 2 [] o.mode = "Hand" -> 3

\* Mode::into_arithmetic
into_arithmetic(b) ==
    CASE b = 0 -> OkR("Wrap") [] b = 1 -> OkR("Sat")
      [] b = 2 -> OkR("Wide") [] b = 3 -> OkR("Hand")
      [] OTHER -> ErrR("UndefinedOperation(ArithmeticMode)")

\* Mode::into_parameter
into_parameter(b) ==
    CASE b = 0 -> OkR("Set") [] b = 1 -> OkR("Emp") [] b = 2 -> OkR("Zer")
      [] OTHER -> ErrR("UndefinedOperation(ParameterMode)")

\* The operations whose encoded shape is a single operand, a BinOp with a
\* meta byte, and a UnOp with a meta byte; ModedOps carry their mode in the
\* meta byte, the others are written with Mode(0).
OperandOps == {"End", "Slp", "Go", "App", "Clf"}
BinOps == {"Set"} \cup ArithBinOps \cup DivisionOps \cup BinConditionals \cup BitConditionals
UnOps == ArithUnOps \cup UnConditionals \cup {"Par"}
ModedOps == ArithBinOps \cup ArithUnOps \cup {"Par"}

op_code(name) ==
    CASE name = "Nop" -> 0 [] name = "End" -> 1 [] name = "Slp" -> 2
      [] name = "Set" -> 3 [] name = "Cnv" -> 4 [] name = "Add" -> 5 [] name = "Sub" -> 6
      [] name = "Mul" -> 7 [] name = "Div" -> 8 [] name = "Mod" -> 9
      [] name = "Neg" -> 16 [] name = "Inc" -> 17 [] name = "Dec" -> 18
      [] name = "Go" -> 19 [] name = "Ift" -> 20 [] name = "Iff" -> 21
      [] name = "Ife" -> 22 [] name = "Ifl" -> 23 [] name = "Ifg" -> 24
      [] name = "Ine" -> 25 [] name = "Inl" -> 26 [] name = "Ing" -> 27
      [] name = "Ifa" -> 28 [] name = "Ifo" -> 29 [] name = "Ifx" -> 30
      [] name = "Ina" -> 31 [] name = "Ino" -> 32 [] name = "Inx" -> 33
      [] name = "App" -> 34 [] name = "Par" -> 35 [] name = "Clf" -> 36

\* BinOp::variant and UnOp::variant, as Variant::as_byte of the result.
variant(o) ==
    (IF o.x_offset.kind # "None" THEN 1 ELSE 0)
        + (IF o.y_offset.kind # "None" THEN 2 ELSE 0)

\* a | b on bytes.
BitOr(a, b) == a + b - BitAnd(a, b)

\* bytes.iter().rev().skip_while(|&b| *b == 0).count()
RECURSIVE significant(_)
significant(bytes) ==
    IF bytes = <<>> THEN 0
    ELSE IF bytes[Len(bytes)] # 0 THEN Len(bytes)
    ELSE significant(SubSeq(bytes, 1, Len(bytes) - 1))

\* <Operand as Encode>::encode.  `n_bytes as u8 - 1` underflows when the
\* value has no significant byte: a build with overflow checks panics there,
\* a build without them carries on with 255.
encode_operand(a, overflow_checks) ==
    LET long(bytes, n_bytes) ==
            IF n_bytes = 0 /\ overflow_checks THEN ErrR("Panic")
            ELSE OkR(<<BitOr(BitOr(as_byte(a) * 16, (n_bytes - 1) % 256), 128)>>
                         \o SubSeq(bytes, 1, n_bytes))
    IN  IF a.kind = "Emp" THEN OkR(<<as_byte(a) * 16>>)
        ELSE IF a.v <= 127 /\ a.kind = "Loc" THEN OkR(<<to_bytes("Uw", a.v)[1]>>)
        ELSE long(to_bytes("Uw", a.v), significant(to_bytes("Uw", a.v)))

\* <(OpType, Mode, Variant) as Encode>::encode
encode_meta(t, mode, var) == BitOr(BitOr(var * 64, mode * 16), OpTypeByte(t))

\* encode_op, with the tuple, BinOp and UnOp encoders it calls.  The
\* repository holds two encoders of BinOp: one over a BinOp with the fields
\* x_offset and y_offset, which writes each offset that is present, and one
\* over a BinOp whose variant Both carries a single offset (one_offset),
\* which writes that offset once.
encode_op(o, overflow_checks, one_offset) ==
    LET cat(a, b) == IF ~a.ok THEN a ELSE IF ~b.ok THEN b ELSE OkR(a.val \o b.val)
        operand(a) == encode_operand(a, overflow_checks)
        offset(a) == IF a.kind = "None" THEN OkR(<<>>) ELSE operand(a)
        code(name) == OkR(<<op_code(name)>>)
        meta(mode) == OkR(<<encode_meta(o.ot, mode, variant(o))>>)
        head(name) ==
            cat(code(name), meta(IF name \in ModedOps THEN ModeByte(o) ELSE 0))
    IN  CASE o.op = "Nop" -> code(o.op)
          [] o.op \in OperandOps -> cat(code(o.op), operand(o.x))
          [] o.op \in BinOps ->
               cat(cat(head(o.op), cat(operand(o.x), operand(o.y))),
                   IF one_offset /\ variant(o) = 3 THEN offset(o.x_offset)
                   ELSE cat(offset(o.x_offset), offset(o.y_offset)))
          [] o.op \in UnOps ->
               cat(head(o.op), cat(operand(o.x), offset(o.x_offset)))
          [] o.op = "Cnv" ->
               cat(cat(code(o.op), OkR(<<BitOr(OpTypeByte(o.ot), OpTypeByte(o.ut) * 16)>>)),
                   cat(operand(o.x), operand(o.y)))

\* <Operand as Decode>::decode.  The value is read into a buffer of
\* size_of::<UWord>() bytes, so slicing it by a longer n_bytes panics.
decode_operand(bytes) ==
    LET made(a, rest) ==
            IF a.ok THEN OkR([val |-> a.val, rest |-> rest]) ELSE a
        long(meta, rest, n_bytes) ==
            IF n_bytes > WordBytes THEN ErrR("Panic")
            ELSE IF Len(rest) < n_bytes THEN ErrR("UnexpectedEnd")
            ELSE made(OperandNew(LeSum(SubSeq(rest, 1, n_bytes)), (meta % 128) \div 16),
                      SubSeq(rest, n_bytes + 1, Len(rest)))
    IN  IF bytes = <<>> THEN ErrR("UnexpectedEnd")
        ELSE IF Head(bytes) < 128
        THEN OkR([val |-> Loc(Head(bytes)), rest |-> Tail(bytes)])
        ELSE long(Head(bytes), Tail(bytes), (Head(bytes) % 16) + 1)

\* n successive Operand decodes: the values in order and the bytes left.
RECURSIVE decode_operands(_, _)
decode_operands(bytes, n) ==
    LET more(first, others) ==
            IF ~others.ok THEN others
            ELSE OkR([val |-> <<first>> \o others.val.val, rest |-> others.val.rest])
        next(first) ==
            IF ~first.ok THEN first
            ELSE more(first.val.val, decode_operands(first.val.rest, n - 1))
    IN  IF n = 0 THEN OkR([val |-> <<>>, rest |-> bytes])
        ELSE next(decode_operand(bytes))

\* <(OpType, Mode, Variant) as Decode>::decode
decode_meta(bytes) ==
    LET made(t, meta) ==
            IF ~t.ok THEN t
            ELSE OkR([ot |-> t.val, mode |-> (meta % 64) \div 16,
                      var |-> meta \div 64, rest |-> Tail(bytes)])
    IN  IF bytes = <<>> THEN ErrR("UnexpectedEnd")
        ELSE made(OpTypeNew(Head(bytes) % 16), Head(bytes))

\* <BinOp as Decode<Variant>>::decode
decode_bin(bytes, var) ==
    LET made(r) ==
            IF ~r.ok THEN r
            ELSE OkR([x |-> r.val.val[1], y |-> r.val.val[2],
                      x_offset |-> IF var \in {1, 3} THEN r.val.val[3] ELSE NoOperand,
                      y_offset |-> IF var = 2 THEN r.val.val[3]
                                   ELSE IF var = 3 THEN r.val.val[4] ELSE NoOperand,
                      rest |-> r.val.rest])
    IN  made(decode_operands(bytes, 2 + (IF var = 0 THEN 0 ELSE IF var = 3 THEN 2 ELSE 1)))

\* <UnOp as Decode<Variant>>::decode, had it read variants Second and Both
\* as First.
decode_un_any_offset(bytes, var) ==
    LET made(r) ==
            IF ~r.ok THEN r
            ELSE OkR([x |-> r.val.val[1],
                      x_offset |-> IF var >= 1 THEN r.val.val[2] ELSE NoOperand,
                      rest |-> r.val.rest])
    IN  made(decode_operands(bytes, IF var >= 1 THEN 2 ELSE 1))

\* <UnOp as Decode<Variant>>::decode
decode_un(bytes, var) ==
    LET made(r) ==
            IF ~r.ok THEN r
            ELSE IF var > 1 THEN ErrR("IncorrectVariant")
            ELSE OkR([x |-> r.val.val[1],
                      x_offset |-> IF var = 1 THEN r.val.val[2] ELSE NoOperand,
                      rest |-> r.val.rest])
    IN  made(decode_operands(bytes, IF var = 1 THEN 2 ELSE 1))

\* decode_op, with the tuple decoders it calls.
decode_op(bytes) ==
    LET names == {"Nop", "Cnv"} \cup OperandOps \cup BinOps \cup UnOps
        single(name, a) ==
            IF ~a.ok THEN a
            ELSE OkR([val |-> OpX(name, a.val.val), rest |-> a.val.rest])
        moded(name, m, b, mode) ==
            IF ~b.ok THEN b
            ELSE IF ~mode.ok THEN mode
            ELSE OkR([val |-> MkOp(name, b.val.x, b.val.x_offset,
                                   IF name \in BinOps THEN b.val.y ELSE NoOperand,
                                   IF name \in BinOps THEN b.val.y_offset ELSE NoOperand,
                                   m.ot, m.ot,
                                   IF name \in ModedOps THEN mode.val ELSE "Wrap"),
                      rest |-> b.val.rest])
        with_meta(name, m) ==
            IF ~m.ok THEN m
            ELSE moded(name, m.val,
                       IF name \in BinOps THEN decode_bin(m.val.rest, m.val.var)
                       ELSE decode_un(m.val.rest, m.val.var),
                       IF name = "Par" THEN into_parameter(m.val.mode)
                       ELSE IF name \in ModedOps \cup BinOps THEN into_arithmetic(m.val.mode)
                       ELSE OkR("Wrap"))
        converted(t, u, xy) ==
            IF ~xy.ok THEN xy
            ELSE OkR([val |-> MkOp("Cnv", xy.val.val[1], NoOperand, xy.val.val[2],
                                   NoOperand, t, u, "Wrap"),
                      rest |-> xy.val.rest])
        types(t, u, rest) ==
            IF ~t.ok THEN t
            ELSE IF ~u.ok THEN u
            ELSE converted(t.val, u.val, decode_operands(rest, 2))
        named(name, rest) ==
            CASE name = "Nop" -> OkR([val |-> Nop, rest |-> rest])
              [] name \in OperandOps -> single(name, decode_operand(rest))
              [] name = "Cnv" ->
                   IF rest = <<>> THEN ErrR("UnexpectedEnd")
                   ELSE types(OpTypeNew(Head(rest) % 16), OpTypeNew(Head(rest) \div 16),
                              Tail(rest))
              [] OTHER -> with_meta(name, decode_meta(rest))
    IN  IF bytes = <<>> THEN ErrR("UnexpectedEnd")
        ELSE IF \A n \in names : op_code(n) # Head(bytes) THEN ErrR("UnknownOpCode")
        ELSE named(CHOOSE n \in names : op_code(n) = Head(bytes), Tail(bytes))

\* No globals are reserved, and no call has been made on the Memory.
NoGlobals == [reserved |-> FALSE, base |-> 0]

NoAccess ==
    [kind |-> "new", page |-> "", dest |-> 0, src |-> 0, size |-> 0, ot |-> "U8",
     val |-> 0, pre |-> NewExecutor.memory, pre_globals |-> NoGlobals,
     res |-> OkR(0), name |-> ""]

\* No Op has been encoded yet.
NoCodec ==
    [phase |-> "idle", op |-> NoOp, overflow_checks |-> FALSE, one_offset |-> FALSE,
     enc |-> OkR(<<>>), tail |-> <<>>, dec |-> ErrR("None")]

(***************************************************************************)
(* The Files table (src/src/executor/files.rs).  A file is a Vec<u8> or a  *)
(* VecDeque<u8>, told apart from every other file by the number id; a cell *)
(* of the table holds a file or NoFile (None); current is the current      *)
(* file with its index, or NoCurrent (None).  A method yields OkR of the   *)
(* table it leaves and the value it returns, or ErrR of a FilesError.      *)
(***************************************************************************)
\* Files::LIMIT; the source has 64.
LIMIT == 2

NoFile == [id |-> 0, kind |-> "None", data |-> <<>>]
NoCurrent == [set |-> FALSE, idx |-> 0, file |-> NoFile]

\* Files::new
FilesNew == [files |-> <<>>, count |-> 0, current |-> NoCurrent]

\* <Vec<u8> as File>::read, <VecDeque<u8> as File>::read; -1 is None.
file_read(f) ==
    IF f.kind = "Vec" THEN ErrR("FileError(ReadingNotAvailable)")
    ELSE IF f.data = <<>> THEN OkR([file |-> f, val |-> 0 - 1])
    ELSE OkR([file |-> [f EXCEPT !.data = Tail(@)], val |-> Head(f.data)])

\* <Vec<u8> as File>::write, <VecDeque<u8> as File>::write
file_write(f, val) == OkR([file |-> [f EXCEPT !.data = Append(@, val)], val |-> 0])

\* File::flush
file_flush(f) == OkR([file |-> f, val |-> 0])

\* Files::open
open(fs, file) ==
    LET put(cells, idx) ==
            OkR([fs |-> [fs EXCEPT !.files = [cells EXCEPT ![idx + 1] = file],
                                   !.count = @ + 1],
                 val |-> idx])
        found(free) ==
            IF free # {}
            THEN put(fs.files, (CHOOSE i \in free : \A j \in free : i <= j) - 1)
            ELSE put(Append(fs.files, NoFile), Len(fs.files))
    IN  IF fs.count = LIMIT THEN ErrR("LimitExceeded")
        ELSE found({i \in 1..Len(fs.files) :
                      /\ fs.files[i] = NoFile
                      /\ ~(fs.current.set /\ fs.current.idx = i - 1)})

\* Files::close
close(fs, idx) ==
    IF fs.current.set /\ fs.current.idx = idx
    THEN OkR([fs |-> [fs EXCEPT !.current = NoCurrent, !.count = @ - 1],
              val |-> fs.current.file])
    ELSE IF idx >= Len(fs.files) THEN ErrR("NotFound")
    ELSE IF fs.files[idx + 1] = NoFile THEN ErrR("NotFound")
    ELSE OkR([fs |-> [fs EXCEPT !.files[idx + 1] = NoFile, !.count = @ - 1],
              val |-> fs.files[idx + 1]])

\* Files::set_current, had it left a file that is current in place.
set_current_once(fs, idx) ==
    IF idx >= Len(fs.files) THEN ErrR("NotFound")
    ELSE IF fs.files[idx + 1] = NoFile THEN ErrR("NotFound")
    ELSE IF fs.current.set THEN OkR([fs |-> fs, val |-> 0])
    ELSE OkR([fs |-> [fs EXCEPT !.files[idx + 1] = NoFile,
                                !.current = [set |-> TRUE, idx |-> idx,
                                             file |-> fs.files[idx + 1]]],
              val |-> 0])

\* Files::set_current
set_current(fs, idx) ==
    IF idx >= Len(fs.files) THEN ErrR("NotFound")
    ELSE IF fs.files[idx + 1] = NoFile THEN ErrR("NotFound")
    ELSE OkR([fs |-> [fs EXCEPT !.files[idx + 1] = NoFile,
                                !.current = [set |-> TRUE, idx |-> idx,
                                             file |-> fs.files[idx + 1]]],
              val |-> 0])

\* Files::current
current(fs) ==
    IF ~fs.current.set THEN ErrR("CurrentIsNotSet")
    ELSE OkR([fs |-> fs, val |-> fs.current.idx])

\* Files::get_mut
get_mut(fs) ==
    IF ~fs.current.set THEN ErrR("CurrentIsNotSet")
    ELSE OkR(fs.current.file)

\* The File method called on the file get_mut lent returned r: the `?` on
\* its result, the file being changed in place.
on_current(fs, r) ==
    IF ~r.ok THEN r
    ELSE OkR([fs |-> [fs EXCEPT !.current.file = r.val.file], val |-> r.val.val])

\* Files::read
read(fs) ==
    IF ~get_mut(fs).ok THEN get_mut(fs)
    ELSE on_current(fs, file_read(get_mut(fs).val))

\* Files::write
write(fs, val) ==
    IF ~get_mut(fs).ok THEN get_mut(fs)
    ELSE on_current(fs, file_write(get_mut(fs).val, val))

\* Files::flush
flush(fs) ==
    IF ~get_mut(fs).ok THEN get_mut(fs)
    ELSE on_current(fs, file_flush(get_mut(fs).val))

\* No call made yet on the Files table: no index is held, no file selected.
NoCall ==
    [kind |-> "new", idx |-> 0, val |-> 0, pre |-> FilesNew, res |-> OkR(0),
     opened |-> 0, held |-> [i \in 1..(LIMIT + 1) |-> 0], selected |-> 0]

(***************************************************************************)
(* The state machine.  The host owns an Executor over a function table,    *)
(* enters a function with `call` and then steps it with `execute`.         *)
(*                                                                         *)
(* result, last and history observe the run without influencing it:        *)
(* result is the value the last call returned, last is the instruction it  *)
(* executed and the state it started from, and history keeps, for every    *)
(* frame on the call stack, what was true when App pushed it and Clf       *)
(* activated it.  codec is the encoder and decoder at work, which the      *)
(* executor never touches.  globals is the reservation of the heap prefix  *)
(* for globals, and access observes the last call made on the Memory       *)
(* directly: what was called, on which memory, and what it returned.       *)
(***************************************************************************)
VARIABLES functions, memory, program_counter, call_stack, prepared_call,
          parameter_ptr, result, last, history, codec, globals, access,
          files, io

vars ==
    <<functions, memory, program_counter, call_stack, prepared_call,
      parameter_ptr, result, last, history, codec, globals, access,
      files, io>>

\* The Executor's fields as one record.
S ==
    [memory |-> memory,
     program_counter |-> program_counter,
     call_stack |-> call_stack,
     prepared_call |-> prepared_call,
     parameter_ptr |-> parameter_ptr]

\* What is remembered of a frame: the stack length and call-stack depth when
\* App pushed it, whether that App succeeded, how many Clf activated it, the
\* program counter and prepared_call at the first of them, the values passed
\* by Par(.., Set) since App, and whether App, those Par and Clf were the
\* only steps in between.
Pushed(pre, ok) ==
    [stack_len |-> Len(pre.memory.stack), depth |-> Len(pre.call_stack),
     app_ok |-> ok, clfs |-> 0, clf_pc |-> 0, clf_prepared |-> FALSE,
     pars |-> <<>>, pure |-> TRUE]

Observe(h, pre, o, r) ==
    LET n0 == Len(pre.call_stack)
        n1 == Len(r.st.call_stack)
        ok == r.res.status # "Err"
        feeding == n0 >= 1 /\ pre.prepared_call /\ h[n0].clfs = 0
    IN  IF n1 > n0
        THEN Append(IF feeding THEN [h EXCEPT ![n0].pure = FALSE] ELSE h, Pushed(pre, ok))
        ELSE IF n1 < n0 THEN SubSeq(h, 1, n1)
        ELSE IF n0 = 0 THEN h
        ELSE IF o.op = "Clf" /\ ok
        THEN [h EXCEPT ![n0] =
                 [@ EXCEPT !.clfs = IF @ = 0 THEN 1 ELSE 2,
                           !.clf_pc = IF h[n0].clfs = 0 THEN pre.program_counter ELSE @,
                           !.clf_prepared =
                               IF h[n0].clfs = 0 THEN pre.prepared_call ELSE @]]
        ELSE IF ~feeding THEN h
        ELSE IF o.op = "Par" /\ o.mode = "Set" /\ ok
        THEN [h EXCEPT ![n0].pars =
                 Append(@, [ot |-> o.ot, val |-> get_un(functions, pre, o, o.ot).val])]
        ELSE [h EXCEPT ![n0].pure = FALSE]

Commit(kind, o, r, h) ==
    /\ memory' = r.st.memory
    /\ program_counter' = r.st.program_counter
    /\ call_stack' = r.st.call_stack
    /\ prepared_call' = r.st.prepared_call
    /\ parameter_ptr' = r.st.parameter_ptr
    /\ result' = r.res
    /\ last' = [kind |-> kind, op |-> o, pre |-> S, frames |-> history]
    /\ history' = h
    /\ UNCHANGED <<functions, codec, globals, access, files, io>>

Init ==
    /\ functions \in Tables
    /\ memory = NewExecutor.memory
    /\ program_counter = NewExecutor.program_counter
    /\ call_stack = NewExecutor.call_stack
    /\ prepared_call = NewExecutor.prepared_call
    /\ parameter_ptr = NewExecutor.parameter_ptr
    /\ result = NotRun
    /\ last = [kind |-> "new", op |-> NoOp, pre |-> NewExecutor, frames |-> <<>>]
    /\ history = <<>>
    /\ codec = NoCodec
    /\ globals = NoGlobals
    /\ access = NoAccess
    /\ files = FilesNew
    /\ io = NoCall

\* The host enters a function: Executor::call(function_id, ret_address).
Call(function_id, ret_address) ==
    LET entered(a, h, r) ==
            Commit("call", NoOp, r,
                   IF a.res.status = "Ok"
                   THEN Observe(h, a.st, Clf(Val(ret_address)), r) ELSE h)
        pushed(a) ==
            entered(a, Observe(history, S, App(Val(function_id)), a),
                    call(functions, S, function_id, ret_address))
    IN  /\ call_stack = <<>>
        /\ program_counter <= MaxReentryPc
        /\ pushed(app(functions, S, function_id))

\* Executor::execute: `let &op = self.current_op()?`, then the arm of the
\* match for that instruction.
Fetched == current_op(functions, S)

Running(kinds) == Fetched.ok /\ Fetched.val.op \in kinds

Executed(r) == Commit("execute", Fetched.val, r, Observe(history, S, Fetched.val, r))

ExecFetchError ==
    /\ ~Fetched.ok
    /\ Commit("execute", NoOp, Step(S, Failure(Fetched.err)), history)

ExecNop == Running({"Nop"}) /\ Executed(Finish(Step(S, Success)))

ExecEnd == Running({"End", "Slp"}) /\ Executed(execute_end(functions, S, Fetched.val))

ExecSet == Running({"Set"}) /\ Executed(Finish(exec_set(functions, S, Fetched.val)))

ExecArith ==
    /\ Running(ArithBinOps \cup ArithUnOps)
    /\ Executed(Finish(exec_arith(functions, S, Fetched.val)))

ExecDivision ==
    /\ Running(DivisionOps)
    /\ Executed(Finish(update_bin_division(functions, S, Fetched.val)))

ExecGo == Running({"Go"}) /\ Executed(execute_go(functions, S, Fetched.val))

ExecConditional ==
    /\ Running(UnConditionals \cup BinConditionals \cup BitConditionals)
    /\ Executed(execute_conditional(functions, S, Fetched.val))

ExecApp ==
    /\ Running({"App"})
    /\ Len(call_stack) < MaxDepth
    /\ Executed(execute_app(functions, S, Fetched.val))

ExecPar ==
    /\ Running({"Par"})
    /\ parameter_ptr < MaxParameterPtr
    /\ Executed(Finish(exec_par(functions, S, Fetched.val)))

ExecClf == Running({"Clf"}) /\ Executed(execute_clf(functions, S, Fetched.val))

ExecRet == Running({"Ret"}) /\ Executed(ret(functions, S))

Next ==
    \/ \E function_id \in 0..Len(functions) : Call(function_id, 0)
    \/ ExecFetchError
    \/ ExecNop
    \/ ExecEnd
    \/ ExecSet
    \/ ExecArith
    \/ ExecDivision
    \/ ExecGo
    \/ ExecConditional
    \/ ExecApp
    \/ ExecPar
    \/ ExecClf
    \/ ExecRet

Spec == Init /\ [][Next]_vars

(***************************************************************************)
(* The codec as a state machine: an Op is encoded by a build with or       *)
(* without overflow checks, and the bytes it produced, followed by the     *)
(* bytes of whatever comes next in the stream, are decoded.                *)
(***************************************************************************)
\* The Ops that are encoded: every operand kind and a spread of values under
\* the single-operand operations, and every operation, type, mode and offset
\* variant over a few operands.
CodecOps ==
    LET operands ==
            {Emp} \cup
            {[kind |-> k, v |-> n] :
                k \in {"Loc", "Ind", "Ret", "Val", "Ref", "Glb"},
                n \in {0, 1, 127, 128, 255, 256, WordMax}}
        offsets == {NoOperand, Val(1), Loc(128)}
        modes(name) ==
            IF name = "Par" THEN {"Set", "Emp", "Zer"}
            ELSE IF name \in ModedOps THEN {"Wrap", "Sat", "Wide", "Hand"}
            ELSE {"Wrap"}
    IN  {Nop}
        \cup {OpX(name, x) : name \in OperandOps, x \in operands}
        \cup UNION {{OpBinOff(name, x, xo, y, yo, t, m) :
                        x \in {Loc(1), Ind(128), Ref(WordMax)}, xo \in offsets,
                        y \in {Loc(127), Val(256)}, yo \in offsets,
                        t \in CodecTypes, m \in modes(name)} : name \in BinOps}
        \cup {MkOp("Cnv", x, NoOperand, y, NoOperand, t, u, "Wrap") :
                 x \in {Loc(1), Val(256)}, y \in {Loc(127), Ind(128)},
                 t \in CodecTypes, u \in CodecTypes}
        \cup UNION {{OpUnOff(name, x, xo, t, m) :
                        x \in {Loc(1), Ind(128), Ref(WordMax), Val(0), Emp},
                        xo \in offsets,
                        t \in CodecTypes, m \in modes(name)} : name \in UnOps}

CodecInit ==
    /\ functions = <<>>
    /\ memory = NewExecutor.memory
    /\ program_counter = NewExecutor.program_counter
    /\ call_stack = NewExecutor.call_stack
    /\ prepared_call = NewExecutor.prepared_call
    /\ parameter_ptr = NewExecutor.parameter_ptr
    /\ result = NotRun
    /\ last = [kind |-> "new", op |-> NoOp, pre |-> NewExecutor, frames |-> <<>>]
    /\ history = <<>>
    /\ codec = NoCodec
    /\ globals = NoGlobals
    /\ access = NoAccess
    /\ files = FilesNew
    /\ io = NoCall

\* <Op as Encode>::encode.  An Op whose offsets differ, or which carries an
\* arithmetic mode, exists only for the encoder over a BinOp with two offset
\* fields.
Encode ==
    /\ codec.phase = "idle"
    /\ \E o \in CodecOps, checks \in BOOLEAN, single \in BOOLEAN :
           /\ single => /\ o.op \in BinOps \ ModedOps
                         /\ variant(o) = 3 /\ o.x_offset = o.y_offset
           /\ codec' = [codec EXCEPT !.phase = "encoded", !.op = o,
                                     !.overflow_checks = checks,
                                     !.one_offset = single,
                                     !.enc = encode_op(o, checks, single)]
    /\ UNCHANGED <<functions, memory, program_counter, call_stack, prepared_call,
                   parameter_ptr, result, last, history, globals, access,
                   files, io>>

\* <Op as Decode>::decode
Decode ==
    /\ codec.phase = "encoded"
    /\ codec.enc.ok
    /\ \E tail \in {<<>>, <<op_code("End"), 7>>} :
           codec' = [codec EXCEPT !.phase = "decoded", !.tail = tail,
                                  !.dec = decode_op(codec.enc.val \o tail)]
    /\ UNCHANGED <<functions, memory, program_counter, call_stack, prepared_call,
                   parameter_ptr, result, last, history, globals, access,
                   files, io>>

\* decode_op on bytes that no encoder need have produced: an op code that
\* is followed by a meta byte, any meta byte, and what follows it.
Read ==
    /\ codec.phase = "idle"
    /\ \E name \in {"Cnv"} \cup BinOps \cup UnOps, meta \in 0..255,
          rest \in {<<>>, <<12>>, <<12, 192, 8, 0>>, <<176, 5, 3, 4, 7>>,
                    <<132, 1, 2, 3, 4, 5>>} :
           codec' = [codec EXCEPT !.phase = "read",
                                  !.enc = OkR(<<op_code(name), meta>> \o rest),
                                  !.dec = decode_op(<<op_code(name), meta>> \o rest)]
    /\ UNCHANGED <<functions, memory, program_counter, call_stack, prepared_call,
                   parameter_ptr, result, last, history, globals, access,
                   files, io>>

CodecNext == Encode \/ Decode \/ Read

CodecSpec == CodecInit /\ [][CodecNext]_vars

(***************************************************************************)
(* The Memory as a state machine: a host holds a Memory made by            *)
(* from_limits and calls its pages' expand and narrow, and get, set, copy  *)
(* and reserve_global, with any arguments, one call after the other.       *)
(***************************************************************************)
\* The page limits the Memory is made with.
MaxStackPage == 3

MaxHeapPage == 1

Limits == from_limits(MaxStackPage, MaxHeapPage)

\* Addresses in, at the end of and beyond either page, and sizes that fit,
\* that do not, and that wrap the word.
Addresses ==
    (0..MaxStackPage) \cup {HEAP_BASE - 1, WordMax}
        \cup {HEAP_BASE + i : i \in 0..MaxHeapPage}

Sizes == (0..MaxStackPage) \cup {WordMax - HEAP_BASE, WordMax - 1, WordMax}

MemoryInit ==
    /\ functions = <<>>
    /\ memory = [stack |-> Limits.stack.page, heap |-> Limits.heap.page]
    /\ program_counter = NewExecutor.program_counter
    /\ call_stack = NewExecutor.call_stack
    /\ prepared_call = NewExecutor.prepared_call
    /\ parameter_ptr = NewExecutor.parameter_ptr
    /\ result = NotRun
    /\ last = [kind |-> "new", op |-> NoOp, pre |-> NewExecutor, frames |-> <<>>]
    /\ history = <<>>
    /\ codec = NoCodec
    /\ globals = NoGlobals
    /\ access = NoAccess
    /\ files = FilesNew
    /\ io = NoCall

\* The call c returned r, leaving the memory mem and the globals g.
Accessed(c, mem, g, r) ==
    /\ access.kind = "new"
    /\ memory' = mem
    /\ globals' = g
    /\ access' = [c EXCEPT !.pre = memory, !.pre_globals = globals, !.res = r]
    /\ UNCHANGED <<functions, program_counter, call_stack, prepared_call,
                   parameter_ptr, result, last, history, codec, files, io>>

\* A call on one page leaves that page as r.val when it succeeds.
Paged(c, r) ==
    Accessed([c EXCEPT !.name = Limits[c.page].name],
             IF ~r.ok THEN memory
             ELSE IF c.page = "stack" THEN [memory EXCEPT !.stack = r.val]
             ELSE [memory EXCEPT !.heap = r.val],
             globals, IF r.ok THEN OkR(0) ELSE r)

\* mem.stack.expand(size) and mem.heap.expand(size)
MemExpand ==
    \E f \in {"stack", "heap"}, size \in Sizes :
        Paged([NoAccess EXCEPT !.kind = "expand", !.page = f, !.size = size],
              expand(memory[f], Limits[f].limit, size))

\* mem.stack.narrow(size) and mem.heap.narrow(size)
MemNarrow ==
    \E f \in {"stack", "heap"}, size \in Sizes :
        Paged([NoAccess EXCEPT !.kind = "narrow", !.page = f, !.size = size],
              narrow(memory[f], size))

\* mem.get::<T>(ptr)
MemGetValue ==
    \E ptr \in Addresses, t \in {"U8", "U16"} :
        Accessed([NoAccess EXCEPT !.kind = "get", !.src = ptr, !.ot = t,
                                  !.size = TypeSize(t)],
                 memory, globals, MemGet(memory, ptr, t))

\* mem.set::<T>(ptr, value)
MemSetValue ==
    LET stored(c, r) ==
            Accessed(c, IF r.ok THEN r.val ELSE memory, globals,
                     IF r.ok THEN OkR(0) ELSE r)
    IN  \E ptr \in Addresses, t \in {"U8", "U16"}, v \in {1, 256} :
            /\ v <= TypeMax(t)
            /\ stored([NoAccess EXCEPT !.kind = "set", !.dest = ptr, !.ot = t,
                                       !.size = TypeSize(t), !.val = v],
                      MemSet(memory, ptr, t, v))

\* mem.copy(dest, src, size)
MemCopy ==
    LET copied(c, r) ==
            Accessed(c, IF r.ok THEN r.val ELSE memory, globals,
                     IF r.ok THEN OkR(0) ELSE r)
    IN  \E dest \in Addresses, src \in Addresses, size \in Sizes :
            copied([NoAccess EXCEPT !.kind = "copy", !.dest = dest, !.src = src,
                                    !.size = size],
                   copy(memory, dest, src, size))

\* reserve_global(size)
ReserveGlobal ==
    LET reserved(c, r) ==
            Accessed(c, IF r.ok THEN r.val.memory ELSE memory,
                     IF r.ok THEN r.val.globals ELSE globals,
                     IF r.ok THEN OkR(0) ELSE r)
    IN  \E size \in 0..(MaxHeapPage + 1) :
            reserved([NoAccess EXCEPT !.kind = "reserve_global", !.size = size],
                     reserve_global(memory, globals, Limits.heap.limit, size))

\* The host has taken the result of the call it made.
MemReturn ==
    /\ access.kind # "new"
    /\ access' = NoAccess
    /\ UNCHANGED <<functions, memory, program_counter, call_stack, prepared_call,
                   parameter_ptr, result, last, history, codec, globals,
                   files, io>>

MemoryNext ==
    \/ MemReturn
    \/ MemExpand
    \/ MemNarrow
    \/ MemGetValue
    \/ MemSetValue
    \/ MemCopy
    \/ ReserveGlobal

MemorySpec == MemoryInit /\ [][MemoryNext]_vars

(***************************************************************************)
(* The run of tests.rs executor_gcd: the host calls function 0 and then    *)
(* calls execute for as long as it returns Ok.  The program is that of the *)
(* test with its u32 slots scaled to two bytes, on a stack page that holds *)
(* both frames.                                                            *)
(***************************************************************************)
\* The stack page's limit in this run.
GcdStackLimit == 12
\* Largest of the small inputs x and y explored.
MaxGcdInput == 8

GcdInputs == (1..MaxGcdInput) \cup {234, 533, TypeMax("U16")}

\* Function 0: result at Loc(0), x at Loc(2), y at Loc(4).
GcdMain(x, y) ==
    <<SetOp(Loc(2), Val(x), "U16"), SetOp(Loc(4), Val(y), "U16"),
      App(Val(1)), Par(Loc(2), "U16", "Set"), Par(Loc(4), "U16", "Set"),
      Clf(Val(0)), End(Val(0))>>

\* Function 1 (fn gcd): a at Loc(0), b at Loc(2), c at Loc(4).
GcdLoop ==
    <<SetOp(Loc(4), Loc(0), "U16"), OpBin("Mod", Loc(4), Loc(2), "U16", "Wrap"),
      SetOp(Loc(0), Loc(2), "U16"), SetOp(Loc(2), Loc(4), "U16"),
      Ift(Loc(2), "U16"), Go(Val(0)),
      SetOp(Ret(0), Loc(0), "U16"), RetOp>>

executor_gcd(x, y) == <<Function(6, GcdMain(x, y)), Function(6, GcdLoop)>>

GcdInit ==
    /\ functions \in {executor_gcd(x, y) : x \in GcdInputs, y \in GcdInputs}
    /\ memory = NewExecutor.memory
    /\ program_counter = NewExecutor.program_counter
    /\ call_stack = NewExecutor.call_stack
    /\ prepared_call = NewExecutor.prepared_call
    /\ parameter_ptr = NewExecutor.parameter_ptr
    /\ result = NotRun
    /\ last = [kind |-> "new", op |-> NoOp, pre |-> NewExecutor, frames |-> <<>>]
    /\ history = <<>>
    /\ codec = NoCodec
    /\ globals = NoGlobals
    /\ access = NoAccess
    /\ files = FilesNew
    /\ io = NoCall

\* exe.call(0, 0).unwrap()
GcdCall ==
    LET entered(a, h, r) ==
            Commit("call", NoOp, r,
                   IF a.res.status = "Ok" THEN Observe(h, a.st, Clf(Val(0)), r) ELSE h)
        pushed(a) ==
            entered(a, Observe(history, S, App(Val(0)), a),
                    call_within(functions, S, 0, 0, GcdStackLimit))
    IN  /\ last.kind = "new"
        /\ pushed(app_within(functions, S, 0, GcdStackLimit))

\* `while let Executed::Ok(ExecutionSuccess::Ok) = executed`
Looping == last.kind # "new" /\ result = Success

GcdSet == Looping /\ ExecSet

GcdMod == Looping /\ ExecDivision

GcdIft == Looping /\ ExecConditional

GcdGo == Looping /\ ExecGo

GcdApp ==
    /\ Looping
    /\ Running({"App"})
    /\ Executed(execute_app_within(functions, S, Fetched.val, GcdStackLimit))

GcdPar == Looping /\ ExecPar

GcdClf == Looping /\ ExecClf

GcdRet == Looping /\ ExecRet

GcdEnd == Looping /\ ExecEnd

GcdNext ==
    \/ GcdCall
    \/ GcdSet
    \/ GcdMod
    \/ GcdIft
    \/ GcdGo
    \/ GcdApp
    \/ GcdPar
    \/ GcdClf
    \/ GcdRet
    \/ GcdEnd

\* ENABLED <<GcdNext>>_vars written out: the call is enabled on the new
\* executor, and in the loop the arm of the fetched instruction is.
GcdEnabled ==
    \/ last.kind = "new"
    \/ /\ Looping
       /\ Running({"Set", "Mod", "Ift", "Go", "App", "Par", "Clf", "Ret", "End"})
       /\ Fetched.val.op = "Par" => parameter_ptr < MaxParameterPtr

\* The host's loop calls execute again whenever the last result was Ok:
\* weak fairness of GcdNext, WF_vars(GcdNext) with its ENABLED written out.
GcdSpec ==
    /\ GcdInit
    /\ [][GcdNext]_vars
    /\ ([]<>(~GcdEnabled) \/ []<><<GcdNext>>_vars)

(***************************************************************************)
(* Recursion on a small stack page: the host calls a function of a table   *)
(* whose functions call themselves, and execute is called again and again, *)
(* also after it has returned an error.                                    *)
(***************************************************************************)
\* The stack page's limit in these runs.
DepthStackLimit == 2
\* Cap on the call-stack depth explored, above what frames of one byte or
\* more can reach on that page.
MaxCallDepth == 5

\* Recursion through App .. Clf, with and without a parameter.
RecursePar == <<App(Val(0)), Par(Val(1), "U8", "Set"), Clf(Val(0)), RetOp>>

DepthTables ==
    {<<Function(a, p), Function(b, SelfClf)>> :
        a \in 0..DepthStackLimit, b \in 0..DepthStackLimit, p \in {Recurse, RecursePar}}

DepthInit ==
    /\ functions \in DepthTables
    /\ memory = NewExecutor.memory
    /\ program_counter = NewExecutor.program_counter
    /\ call_stack = NewExecutor.call_stack
    /\ prepared_call = NewExecutor.prepared_call
    /\ parameter_ptr = NewExecutor.parameter_ptr
    /\ result = NotRun
    /\ last = [kind |-> "new", op |-> NoOp, pre |-> NewExecutor, frames |-> <<>>]
    /\ history = <<>>
    /\ codec = NoCodec
    /\ globals = NoGlobals
    /\ access = NoAccess
    /\ files = FilesNew
    /\ io = NoCall

\* exe.call(function_id, 0) on the new executor.
DepthCall(function_id) ==
    LET entered(a, h, r) ==
            Commit("call", NoOp, r,
                   IF a.res.status = "Ok" THEN Observe(h, a.st, Clf(Val(0)), r) ELSE h)
        pushed(a) ==
            entered(a, Observe(history, S, App(Val(function_id)), a),
                    call_within(functions, S, function_id, 0, DepthStackLimit))
    IN  /\ last.kind = "new"
        /\ pushed(app_within(functions, S, function_id, DepthStackLimit))

DepthApp ==
    /\ Running({"App"})
    /\ Len(call_stack) < MaxCallDepth
    /\ Executed(execute_app_within(functions, S, Fetched.val, DepthStackLimit))

DepthNext ==
    \/ \E function_id \in 0..1 : DepthCall(function_id)
    \/ DepthApp
    \/ ExecPar
    \/ ExecClf
    \/ ExecRet
    \/ ExecConditional
    \/ ExecArith

DepthSpec == DepthInit /\ [][DepthNext]_vars

(***************************************************************************)
(* The Files table as a state machine: the methods are called in any       *)
(* order.  io records the last call (its arguments, the table before it,   *)
(* its result) and what the caller knows: how many files it has opened,    *)
(* for each index the file open returned it for - until close is called on *)
(* that index - and the file selected by the last successful set_current,  *)
(* until that file is closed.                                              *)
(***************************************************************************)
\* Files opened in one run.
MaxOpens == 3
\* Bytes a file holds at most.
MaxFileData == 2

FilesInit ==
    /\ functions = <<>>
    /\ memory = NewExecutor.memory
    /\ program_counter = NewExecutor.program_counter
    /\ call_stack = NewExecutor.call_stack
    /\ prepared_call = NewExecutor.prepared_call
    /\ parameter_ptr = NewExecutor.parameter_ptr
    /\ result = NotRun
    /\ last = [kind |-> "new", op |-> NoOp, pre |-> NewExecutor, frames |-> <<>>]
    /\ history = <<>>
    /\ codec = NoCodec
    /\ globals = NoGlobals
    /\ access = NoAccess
    /\ files = FilesNew
    /\ io = NoCall

\* The call c returned r; held and selected are what the caller knows
\* after it.
Called(c, r, held, selected) ==
    /\ files' = IF r.ok THEN r.val.fs ELSE files
    /\ io' = [c EXCEPT !.pre = files,
                       !.res = IF r.ok THEN OkR(r.val.val) ELSE r,
                       !.held = held, !.selected = selected]
    /\ UNCHANGED <<functions, memory, program_counter, call_stack, prepared_call,
                   parameter_ptr, result, last, history, codec, globals, access>>

\* files.open(file)
FilesOpen ==
    LET opened(c, r) ==
            Called(c, r,
                   IF r.ok THEN [io.held EXCEPT ![r.val.val + 1] = c.opened] ELSE io.held,
                   io.selected)
    IN  /\ io.opened < MaxOpens
        /\ \E kind \in {"Vec", "VecDeque"} :
               opened([io EXCEPT !.kind = "open", !.opened = @ + 1],
                      open(files, [id |-> io.opened + 1, kind |-> kind, data |-> <<>>]))

\* files.close(idx)
FilesClose ==
    LET closed(c, r) ==
            Called(c, r, [io.held EXCEPT ![c.idx + 1] = 0],
                   IF r.ok /\ r.val.val.id = io.selected THEN 0 ELSE io.selected)
    IN  \E idx \in 0..LIMIT :
            closed([io EXCEPT !.kind = "close", !.idx = idx], close(files, idx))

\* files.set_current(idx)
FilesSetCurrent ==
    LET selected(c, r) ==
            Called(c, r, io.held, IF r.ok THEN io.held[c.idx + 1] ELSE io.selected)
    IN  \E idx \in 0..LIMIT :
            selected([io EXCEPT !.kind = "set_current", !.idx = idx],
                     set_current(files, idx))

\* files.current()
FilesCurrent ==
    Called([io EXCEPT !.kind = "current"], current(files), io.held, io.selected)

\* files.read()
FilesRead == Called([io EXCEPT !.kind = "read"], read(files), io.held, io.selected)

\* files.write(val)
FilesWrite ==
    /\ Len(files.current.file.data) < MaxFileData
    /\ \E val \in {1, 2} :
           Called([io EXCEPT !.kind = "write", !.val = val], write(files, val),
                  io.held, io.selected)

\* files.flush()
FilesFlush == Called([io EXCEPT !.kind = "flush"], flush(files), io.held, io.selected)

FilesNext ==
    \/ FilesOpen
    \/ FilesClose
    \/ FilesSetCurrent
    \/ FilesCurrent
    \/ FilesRead
    \/ FilesWrite
    \/ FilesFlush

FilesSpec == FilesInit /\ [][FilesNext]_vars




(***************************************************************************)
(* Properties.  A step is described by `last` (the instruction executed    *)
(* and the state it started from), `result` (what it returned) and the     *)
(* current state (what it left).                                           *)
(***************************************************************************)
Stepped(kinds) == last.kind = "execute" /\ last.op.op \in kinds

Erred == result.status = "Err"

Top(stack) == stack[Len(stack)]

frame_size(frame) == functions[frame.function + 1].frame_size

\* C1: at most one frame of the call stack is prepared (pushed by App and
\* not yet activated by Clf), and such a frame is the top frame.
C1_OnePreparedFrameOnTop ==
    \A i \in 1..Len(history) : history[i].clfs = 0 => i = Len(history)

RECURSIVE ParOffset(_, _)
\* size(T1) + ... + size(T(i-1)) over the parameters passed.
ParOffset(pars, i) ==
    IF i <= 1 THEN 0 ELSE ParOffset(pars, i - 1) + TypeSize(pars[i - 1].ot)

\* The top frame was pushed by a successful App, given values only by
\* Par(.., Set) steps, and has just been activated by Clf.
JustCalled ==
    /\ Stepped({"Clf"}) /\ ~Erred
    /\ last.pre.prepared_call
    /\ Top(history).app_ok /\ Top(history).pure /\ Top(history).clfs = 1

\* C3: after App(f), Par(v1,T1,Set) .. Par(vk,Tk,Set), Clf the callee reads
\* parameter i, as type Ti, at Loc(size(T1) + .. + size(T(i-1))) of its frame.
C3_ParametersFromOffsetZero ==
    JustCalled =>
        \A i \in 1..Len(Top(history).pars) :
            get_val(functions, S, Loc(ParOffset(Top(history).pars, i)),
                    Top(history).pars[i].ot)
                = OkR(Top(history).pars[i].val)

\* The frame that has just returned, as history knew it.
Returned == last.frames[Len(last.pre.call_stack)]

\* The callee, a frame pushed by a successful App and activated by one Clf
\* while it was the prepared frame, has just executed its own Ret.
RoundTrip ==
    /\ Stepped({"Ret"}) /\ ~Erred
    /\ ~last.pre.prepared_call
    /\ Returned.app_ok /\ Returned.clfs = 1 /\ Returned.clf_prepared

\* C4: immediately after the callee's Ret the stack length is what it was
\* before App, program_counter is the Clf's program counter plus one, the
\* call-stack depth is what it was before App, and the caller's frame is
\* the executing frame.
C4_CallReturnRoundTrip ==
    RoundTrip =>
        /\ Len(memory.stack) = Returned.stack_len
        /\ program_counter = Returned.clf_pc + 1
        /\ Len(call_stack) = Returned.depth
        /\ Returned.depth >= 1 =>
               current_call(S) = OkR(last.pre.call_stack[Returned.depth])

\* A function called with parameters that itself called a leaf has returned
\* to its caller.
C4_NestedRoundTrip ==
    /\ RoundTrip
    /\ Len(functions) = 3
    /\ Top(last.pre.call_stack).function = 1
    /\ Returned.depth = 1
    /\ Returned.stack_len > 0
    /\ result.status = "Ok"

\* C5: whenever no frame is prepared, parameter_ptr is 0.
C5_ParameterPtrZeroUnlessPrepared == ~prepared_call => parameter_ptr = 0

\* C6: an execute that returns an error leaves program_counter unchanged.
C6_ErrorKeepsProgramCounter ==
    (last.kind = "execute" /\ Erred) => program_counter = last.pre.program_counter

\* C7: an arithmetic step that returns operation-overflow or
\* division-by-zero leaves every byte of memory unchanged.
C7_ArithmeticErrorKeepsMemory ==
    (Stepped(ArithBinOps \cup ArithUnOps \cup DivisionOps)
        /\ result.err.kind \in {"OperationOverflow", "DivisionByZero"}) =>
        memory = last.pre.memory

\* C8: App, Par, Clf or Ret returning an error leaves the call stack,
\* prepared_call, parameter_ptr and the stack page's length unchanged.
C8_CallErrorKeepsProtocolState ==
    (Stepped({"App", "Par", "Clf", "Ret"}) /\ Erred) =>
        /\ call_stack = last.pre.call_stack
        /\ prepared_call = last.pre.prepared_call
        /\ parameter_ptr = last.pre.parameter_ptr
        /\ Len(memory.stack) = Len(last.pre.memory.stack)

RECURSIVE FramesSize(_, _)
\* The sum of the frame sizes of the first n frames of the call stack.
FramesSize(stack, n) ==
    IF n = 0 THEN 0 ELSE FramesSize(stack, n - 1) + frame_size(stack[n])

\* C9: the stack page's length is the sum of the frame sizes of the frames
\* on the call stack, and every frame starts where the frame below it ends.
C9_StackIsTheFrames ==
    /\ Len(memory.stack) = FramesSize(call_stack, Len(call_stack))
    /\ \A i \in 1..Len(call_stack) :
           call_stack[i].base_address = FramesSize(call_stack, i - 1)

\* The program the last step executed in, and whether IFx; IFy; A; B sits
\* at indices i .. i+3 of it.
Program == functions[current_call(last.pre).val.function + 1].program

Fragment(i) ==
    /\ i >= 0
    /\ i + 4 <= Len(Program)
    /\ is_conditional(Program[i + 1])
    /\ is_conditional(Program[i + 2])
    /\ ~is_conditional(Program[i + 3])
    /\ ~is_conditional(Program[i + 4])

Holds(o) == condition(functions, last.pre, o)

\* C10: in IFx; IFy; A; B at i .. i+3, IFx false moves pc to i+3 whatever
\* IFy is; IFx true moves to IFy, from which IFy false moves pc to i+3 with
\* A not executed, and IFy true moves pc to i+2.
C10_ConditionalChain ==
    LET i == last.pre.program_counter
    IN  (Stepped(UnConditionals \cup BinConditionals \cup BitConditionals)
            /\ Holds(last.op).ok) =>
            /\ (Fragment(i) /\ ~Holds(last.op).val) =>
                   program_counter = i + 3 /\ memory = last.pre.memory /\ ~Erred
            /\ (Fragment(i) /\ Holds(last.op).val) => program_counter = i + 1
            /\ (Fragment(i - 1) /\ ~Holds(last.op).val) =>
                   program_counter = i + 2 /\ memory = last.pre.memory /\ ~Erred
            /\ (Fragment(i - 1) /\ Holds(last.op).val) => program_counter = i + 1

\* IFx was false in front of an IFy that would have held, and B is next.
C10_SkippedChain ==
    /\ Stepped(UnConditionals \cup BinConditionals \cup BitConditionals)
    /\ Fragment(last.pre.program_counter)
    /\ Holds(last.op).ok /\ ~Holds(last.op).val
    /\ Holds(Program[last.pre.program_counter + 2]).ok
    /\ Holds(Program[last.pre.program_counter + 2]).val
    /\ program_counter = last.pre.program_counter + 3

\* The frame the current-frame rule names in state st: the one below the
\* top while a call is prepared, the top one otherwise.
Executing(st) ==
    IF st.prepared_call THEN st.call_stack[Len(st.call_stack) - 1] ELSE Top(st.call_stack)

FrameKinds == {"Loc", "Ind", "Ret", "Ref"}

\* The value of an operand of kind Loc, Ind, Ret or Ref relative to a frame.
Resolve(st, frame, operand, t) ==
    CASE operand.kind = "Loc" ->
           MemGet(st.memory, WAdd(frame.base_address, operand.v), t)
      [] operand.kind = "Ind" ->
           LET p == MemGet(st.memory, WAdd(frame.base_address, operand.v), "Uw")
           IN  IF p.ok THEN MemGet(st.memory, p.val, t) ELSE p
      [] operand.kind = "Ret" ->
           MemGet(st.memory, WAdd(frame.ret_address, operand.v), t)
      [] operand.kind = "Ref" ->
           OkR(from_word(t, WAdd(frame.base_address, operand.v)))

\* C11: while prepared_call is true the instruction fetch and the
\* resolution of Loc, Ind, Ref and Ret operands use the frame directly below
\* the top of the call stack; while it is false they use the top frame.
\* Checked on the fetched instruction, on the value get_val yields for each
\* such operand, on the return address a Clf stores and on the value a
\* Par(.., Set) stores.
C11_CurrentFrameRule ==
    (last.kind = "execute" /\ last.op # NoOp) =>
        /\ Len(last.pre.call_stack) >= (IF last.pre.prepared_call THEN 2 ELSE 1)
        /\ LET pre == last.pre
               frame == Executing(pre)
               o == last.op
           IN  /\ o = functions[frame.function + 1].program[pre.program_counter + 1]
               /\ \A a \in {o.x, o.y} :
                      a.kind \in FrameKinds =>
                          get_val(functions, pre, a, o.ot) = Resolve(pre, frame, a, o.ot)
               /\ (o.op = "Clf" /\ ~Erred /\ o.x.kind \in FrameKinds) =>
                      Top(call_stack).ret_address = Resolve(pre, frame, o.x, "Uw").val
               /\ (o.op = "Par" /\ o.mode = "Set" /\ ~Erred /\ o.x.kind \in FrameKinds) =>
                      MemSet(pre.memory,
                             WAdd(frame.base_address,
                                  WAdd(pre.parameter_ptr, frame_size(frame))),
                             o.ot, Resolve(pre, frame, o.x, o.ot).val) = OkR(memory)

\* While a call was prepared, a Par stored the caller's Loc value, which
\* differs from what the same operand names in the prepared frame.
C11_CallerOperandWhilePrepared ==
    /\ Stepped({"Par"}) /\ last.op.mode = "Set" /\ ~Erred
    /\ last.pre.prepared_call
    /\ last.op.x.kind = "Loc"
    /\ Resolve(last.pre, Executing(last.pre), last.op.x, last.op.ot).val
           # Resolve(last.pre, Top(last.pre.call_stack), last.op.x, last.op.ot).val
    /\ memory # last.pre.memory

\* C12: a step that returns a success status and is not Go, Clf, Ret or a
\* conditional whose predicate is false leaves program_counter at its
\* previous value plus one, End and Slp included; a successful Go(x) leaves
\* it at the value read from x.
C12_SuccessAdvancesByOne ==
    (last.kind = "execute" /\ ~Erred) =>
        /\ (/\ last.op.op \notin {"Go", "Clf", "Ret"}
            /\ ~(is_conditional(last.op) /\ ~Holds(last.op).val)) =>
               program_counter = last.pre.program_counter + 1
        /\ last.op.op = "Go" =>
               program_counter = get_val(functions, last.pre, last.op.x, "Uw").val

\* A Slp returned Sleep(3) and the instruction after it is the one to run.
C12_ResumesAfterSleep ==
    /\ Stepped({"Slp"}) /\ result = SleepWith(3)
    /\ program_counter = last.pre.program_counter + 1
    /\ Fetched = OkR(End(Val(1)))

\* The operands an Add .. Dec, Div or Mod step reads, in the order
\* update_bin and update_un read them: the destination operand and the two
\* values (y is 0 for a unary instruction).
Operands(st, o) ==
    LET ops == IF o.op \in ArithUnOps
               THEN LET l == read_un_operand(functions, st, o)
                    IN  IF l.ok THEN OkR([left |-> l.val, right |-> Val(0)]) ELSE l
               ELSE read_bin_operands(functions, st, o)
    IN  IF ~ops.ok THEN [ok |-> FALSE, left |-> NoOperand, x |-> 0, y |-> 0]
        ELSE LET x == get_val(functions, st, ops.val.left, o.ot)
                 y == get_val(functions, st, ops.val.right, o.ot)
             IN  [ok |-> x.ok /\ y.ok, left |-> ops.val.left, x |-> x.val, y |-> y.val]

\* The address a destination operand of kind Loc, Ind or Ret names.
Address(st, operand) ==
    CASE operand.kind = "Loc" -> WAdd(Executing(st).base_address, operand.v)
      [] operand.kind = "Ind" ->
           MemGet(st.memory, WAdd(Executing(st).base_address, operand.v), "Uw").val
      [] operand.kind = "Ret" -> WAdd(Executing(st).ret_address, operand.v)

\* C13: an instruction whose destination operand is of kind Val, Ref or Emp
\* returns incorrect-operation carrying the instruction at the current
\* program counter, whatever its opcode and its other operands.
C13_UnwritableDestinationRejected ==
    (/\ Stepped(ArithBinOps \cup ArithUnOps \cup DivisionOps \cup {"Set"})
     /\ last.op.x.kind \in {"Val", "Ref", "Emp"}) =>
        result = Failure(IncorrectOperation(last.op))

\* C14: Div or Mod on an integer type, its two operands read, returns
\* division-by-zero exactly when the value read from the divisor is zero,
\* and then program_counter is unchanged; it never returns division-by-zero
\* otherwise.
C14_DivisionByZeroOnZeroDivisor ==
    (Stepped(DivisionOps) /\ ~TypeFloat(last.op.ot)) =>
        /\ Operands(last.pre, last.op).ok =>
               (result.err.kind = "DivisionByZero"
                    <=> Operands(last.pre, last.op).y = zero)
        /\ ~Operands(last.pre, last.op).ok => result.err.kind # "DivisionByZero"
        /\ result.err.kind = "DivisionByZero" =>
               program_counter = last.pre.program_counter

\* A divisor read from memory was zero and the step returned
\* division-by-zero.
C14_ZeroDivisorFromMemory ==
    /\ Stepped(DivisionOps) /\ ~TypeFloat(last.op.ot)
    /\ last.op.y.kind = "Loc"
    /\ Operands(last.pre, last.op).ok
    /\ result = Failure(DivisionByZero)

\* C15: Div or Mod on f32 with a zero divisor returns no error: the step
\* succeeds and advances program_counter by one.
C15_FloatDivisionByZeroSucceeds ==
    (/\ Stepped(DivisionOps) /\ TypeFloat(last.op.ot)
     /\ Operands(last.pre, last.op).ok
     /\ IsZero(last.op.ot, Operands(last.pre, last.op).y)) =>
        /\ ~Erred
        /\ program_counter = last.pre.program_counter + 1

\* The checked operator returns none on the operands the step read.
CheckedIsNone(st, o) ==
    /\ Operands(st, o).ok
    /\ ~InRange(o.ot, Exact(o.op, Operands(st, o).x, Operands(st, o).y))

\* C16, as the code has it: an Add .. Dec step on an integer type returns
\* operation-overflow exactly when its mode is Hand, the exact result of the
\* operands read is not representable in the type and the destination is of
\* kind Loc, Ind or Ret; in Wrap, Sat and Wide mode it never does.
C16_OverflowFromHandOnWritable ==
    (Stepped(ArithBinOps \cup ArithUnOps) /\ ~TypeFloat(last.op.ot)) =>
        (result.err.kind = "OperationOverflow"
            <=> /\ last.op.mode = "Hand"
                /\ CheckedIsNone(last.pre, last.op)
                /\ Operands(last.pre, last.op).left.kind \in {"Loc", "Ind", "Ret"})

\* C16, as stated: operation-overflow exactly when the mode is Hand and the
\* exact result is not representable in the type.
C16_OverflowExactlyFromHand ==
    (Stepped(ArithBinOps \cup ArithUnOps) /\ ~TypeFloat(last.op.ot)) =>
        (result.err.kind = "OperationOverflow"
            <=> last.op.mode = "Hand" /\ CheckedIsNone(last.pre, last.op))

\* A Hand step whose exact result does not fit returned operation-overflow.
C16_HandOverflowed ==
    /\ Stepped(ArithBinOps \cup ArithUnOps)
    /\ last.op.mode = "Hand"
    /\ CheckedIsNone(last.pre, last.op)
    /\ result = Failure(OperationOverflow)

\* C17: in Sat mode each of Add, Sub, Mul, Neg, Inc and Dec stores the exact
\* result clamped into [T.min, T.max].
C17_SatStoresClamped ==
    (Stepped(ArithBinOps \cup ArithUnOps) /\ last.op.mode = "Sat" /\ ~Erred) =>
        MemSet(last.pre.memory,
               Address(last.pre, Operands(last.pre, last.op).left), last.op.ot,
               Saturate(last.op.ot, Exact(last.op.op, Operands(last.pre, last.op).x,
                                          Operands(last.pre, last.op).y)))
            = OkR(memory)

\* C18: in Wide mode Add, Sub and Mul store the exact value of x op y, in a
\* type twice as wide as T, for every integer type T, Uw and Iw included.
C18_WideStoresExact ==
    (Stepped(ArithBinOps) /\ last.op.mode = "Wide" /\ ~Erred) =>
        /\ TypeSize(StoreType(last.op)) = 2 * TypeSize(last.op.ot)
        /\ MemGet(memory, Address(last.pre, Operands(last.pre, last.op).left),
                  StoreType(last.op))
               = OkR(Exact(last.op.op, Operands(last.pre, last.op).x,
                           Operands(last.pre, last.op).y))


(***************************************************************************)
(* The byte code: encoder and decoder.                                     *)
(***************************************************************************)
\* The smallest n >= 1 such that n bytes represent v.
MinBytes(v) == CHOOSE n \in 1..WordBytes : v < 256 ^ n /\ (n = 1 \/ v >= 256 ^ (n - 1))

\* C19: for every Op, encoding it and then decoding the produced bytes
\* yields an Op equal to the original and consumes exactly the produced
\* bytes, leaving what follows them in the stream unread.
C19_DecodeInvertsEncode ==
    /\ codec.phase # "idle" => codec.enc.ok
    /\ codec.phase = "decoded" =>
           /\ codec.dec.ok
           /\ codec.dec.val.val = codec.op
           /\ codec.dec.val.rest = codec.tail

\* C20: an operand carrying a value v is encoded as the single byte v if
\* and only if it is a Loc with v <= 0x7F; otherwise as a meta byte with the
\* long bit set and size field n - 1, followed by exactly the n low
\* little-endian bytes of v, n >= 1 being the smallest count representing v.
C20_ShortOrSmallestLongForm ==
    LET a == codec.op.x
        bytes == codec.enc.val
        n == MinBytes(codec.op.x.v)
    IN  (codec.phase # "idle" /\ codec.op.op \in OperandOps /\ a.kind # "Emp") =>
            /\ codec.enc.ok
            /\ bytes[1] = op_code(codec.op.op)
            /\ IF a.kind = "Loc" /\ a.v <= 127
               THEN Tail(bytes) = <<a.v>>
               ELSE /\ Len(bytes) = 2 + n
                    /\ bytes[2] >= 128
                    /\ bytes[2] % 16 = n - 1
                    /\ SubSeq(bytes, 3, 2 + n) = SubSeq(to_bytes("Uw", a.v), 1, n)

\* C21: the operand Emp is encoded as exactly one byte, a long-form meta
\* byte: bit 7 set, kind bits 4-6 equal to 6, size bits 0-3 equal to 0, and
\* no value bytes after it.
C21_EmpIsLongFormMeta ==
    LET bytes == codec.enc.val
    IN  (codec.phase # "idle" /\ codec.op.op \in OperandOps /\ codec.op.x = Emp) =>
            /\ codec.enc.ok
            /\ Len(bytes) = 2
            /\ bytes[2] >= 128
            /\ (bytes[2] % 128) \div 16 = 6
            /\ bytes[2] % 16 = 0

\* The bytes of one operand that encodes without fault.
Encoded(a) == encode_operand(a, TRUE).val

\* C22: a BinOp is encoded as x, y and then the offsets its variant names:
\* x_offset then y_offset for Both, the x offset alone for First, the y
\* offset alone for Second, none for None; decoding consumes exactly these
\* operands and yields the same BinOp, so encoder and decoder agree on the
\* layout for all four variants.
C22_BinOpLayoutAgreed ==
    LET o == codec.op
        bytes == codec.enc.val
        layout ==
            Encoded(codec.op.x) \o Encoded(codec.op.y)
                \o (IF variant(codec.op) \in {1, 3} THEN Encoded(codec.op.x_offset) ELSE <<>>)
                \o (IF variant(codec.op) \in {2, 3} THEN Encoded(codec.op.y_offset) ELSE <<>>)
    IN  (codec.phase \in {"encoded", "decoded"} /\ o.op \in BinOps) =>
            /\ codec.enc.ok
            /\ SubSeq(bytes, 3, Len(bytes)) = layout
            /\ codec.phase = "decoded" =>
                   /\ codec.dec.ok
                   /\ codec.dec.val.val = o
                   /\ codec.dec.val.rest = codec.tail

\* The numeric-type tags of the meta byte of the instruction that was read:
\* bits 0-3, and for Cnv bits 4-7 as well.
TypeTags ==
    IF codec.enc.val[1] = op_code("Cnv")
    THEN {codec.enc.val[2] % 16, codec.enc.val[2] \div 16}
    ELSE {codec.enc.val[2] % 16}

\* C23: decoding an instruction whose meta byte holds the reserved value 10
\* or 12 in a numeric-type tag (either nibble for Cnv) fails with
\* undefined-operation(OpType) and produces no Op.
C23_ReservedTypeTagRejected ==
    (codec.phase = "read" /\ TypeTags \cap {10, 12} # {}) =>
        codec.dec = ErrR("UndefinedOperation(OpType)")

\* A Cnv whose first type is U8 and whose second type tag is 12 was rejected.
C23_SecondCnvTagReserved ==
    /\ codec.phase = "read"
    /\ codec.enc.val[1] = op_code("Cnv")
    /\ codec.enc.val[2] = 12 * 16
    /\ Len(codec.enc.val) > 2
    /\ codec.dec = ErrR("UndefinedOperation(OpType)")

\* An instruction taking a UnOp was read with variant Second or Both.
UnOpWithIllegalVariant ==
    /\ codec.phase = "read"
    /\ \E name \in UnOps : codec.enc.val[1] = op_code(name)
    /\ codec.enc.val[2] \div 64 >= 2

\* C24 as stated: decoding an instruction that takes a UnOp whose meta byte
\* holds variant Second or Both fails with incorrect-variant.
C24_IllegalVariantAlwaysReported ==
    UnOpWithIllegalVariant => codec.dec = ErrR("IncorrectVariant")

\* C24, amended: it fails with incorrect-variant when the type tag of the
\* meta byte is defined and the x operand after it decodes; an undefined
\* type tag or a failing x operand is reported first.
C24_IllegalVariantAfterOperand ==
    (/\ UnOpWithIllegalVariant
     /\ OpTypeNew(codec.enc.val[2] % 16).ok
     /\ decode_operand(SubSeq(codec.enc.val, 3, Len(codec.enc.val))).ok) =>
        codec.dec = ErrR("IncorrectVariant")

\* The instruction `inc u16 loc(12){loc(0)} ref(8)` with variant Second was
\* rejected.
C24_IncWithSecondVariant ==
    /\ codec.phase = "read"
    /\ codec.enc.val = <<op_code("Inc"), 130, 12, 192, 8, 0>>
    /\ codec.dec = ErrR("IncorrectVariant")

(***************************************************************************)
(* The Memory.                                                             *)
(***************************************************************************)
\* The size bytes at address a lie within the page a selects: a plain sum,
\* which does not wrap.
InPage(mem, a, size) == OffsetOf(a) + size <= Len(PageOf(mem, a))

\* Byte i (from 1) of the range at address a.
ByteAt(mem, a, i) == PageOf(mem, a)[OffsetOf(a) + i]

\* C25: get and set succeed if and only if the range of the access size at
\* the page-relative offset of the address lies within the current length
\* of the page the address selects; otherwise they return
\* segmentation-fault and modify nothing.
C25_AccessWithinPageOnly ==
    LET a == IF access.kind = "get" THEN access.src ELSE access.dest
    IN  access.kind \in {"get", "set"} =>
            /\ access.res.ok <=> InPage(access.pre, a, access.size)
            /\ ~access.res.ok =>
                   access.res = ErrR(SegmentationFault) /\ memory = access.pre

\* A U16 was read at the last byte of the stack and faulted, although the
\* first of its two bytes is in the page.
C25_ReadStraddlesEnd ==
    /\ access.kind = "get"
    /\ access.size = 2
    /\ access.pre.stack # <<>>
    /\ access.src = Len(access.pre.stack) - 1
    /\ access.res = ErrR(SegmentationFault)

\* C26: a copy with both ranges inside the same page succeeds; afterwards
\* the bytes at [dest, dest+size) are the bytes that were at
\* [src, src+size) before, also when the ranges overlap, and no other byte
\* of either page has changed.
C26_CopyMovesRange ==
    (/\ access.kind = "copy"
     /\ OnStack(access.dest) = OnStack(access.src)
     /\ InPage(access.pre, access.dest, access.size)
     /\ InPage(access.pre, access.src, access.size)) =>
        /\ access.res.ok
        /\ \A i \in 1..access.size :
               ByteAt(memory, access.dest, i) = ByteAt(access.pre, access.src, i)
        /\ Len(memory.stack) = Len(access.pre.stack)
        /\ Len(memory.heap) = Len(access.pre.heap)
        /\ \A f \in {"stack", "heap"} : \A i \in 1..Len(memory[f]) :
               \/ memory[f][i] = access.pre[f][i]
               \/ /\ (f = "stack") = OnStack(access.dest)
                  /\ OffsetOf(access.dest) < i
                  /\ i <= OffsetOf(access.dest) + access.size

\* Two bytes were copied one byte up over a range whose bytes differ.
C26_OverlapUpwards ==
    /\ access.kind = "copy"
    /\ access.res.ok
    /\ access.size = 2
    /\ access.dest = access.src + 1
    /\ InPage(access.pre, access.dest, access.size)
    /\ ByteAt(access.pre, access.src, 1) # ByteAt(access.pre, access.src, 2)

\* C27: copy fails with wrong-range whenever src + size wraps around the
\* word range, in the same page or across pages; every other request with
\* a range outside its page fails with segmentation-fault; and a failed
\* copy changes no byte.
C27_CopyFailures ==
    LET wraps == access.src + access.size > WordMax
    IN  access.kind = "copy" =>
            /\ wraps => access.res = ErrR(WrongRange)
            /\ (/\ ~wraps
                /\ \/ ~InPage(access.pre, access.dest, access.size)
                   \/ ~InPage(access.pre, access.src, access.size)) =>
                   access.res = ErrR(SegmentationFault)
            /\ ~access.res.ok => memory = access.pre

\* C28: expand(size) on a page of length n with limit m succeeds if and
\* only if n + size <= m; then the page has length n + size, its first n
\* bytes are unchanged and the new bytes are zero; otherwise it returns
\* page-overflow naming the page and nothing changes.  No page is ever
\* longer than its limit.
C28_ExpandWithinLimit ==
    LET pre == access.pre[access.page]
        post == memory[access.page]
    IN  /\ \A f \in {"stack", "heap"} : Len(memory[f]) <= Limits[f].limit
        /\ access.kind = "expand" =>
               /\ access.res.ok <=> Len(pre) + access.size <= Limits[access.page].limit
               /\ access.res.ok =>
                      /\ Len(post) = Len(pre) + access.size
                      /\ SubSeq(post, 1, Len(pre)) = pre
                      /\ \A i \in (Len(pre) + 1)..Len(post) : post[i] = 0
               /\ ~access.res.ok =>
                      /\ access.res = ErrR(PageOverflow)
                      /\ access.name = access.page
                      /\ memory = access.pre

\* A page holding a non-zero byte was expanded.
C28_ExpandedWrittenPage ==
    /\ access.kind = "expand"
    /\ access.res.ok
    /\ access.size > 0
    /\ \E i \in 1..Len(access.pre[access.page]) : access.pre[access.page][i] # 0

\* What a call of reserve_global does: it succeeds only on an empty heap,
\* which it extends by size zero bytes, recording the global base; on a
\* non-empty heap it is rejected with heap-already-used and changes nothing.
ReservationRule ==
    access.kind = "reserve_global" =>
        /\ access.res.ok =>
               /\ access.pre.heap = <<>>
               /\ memory.heap = [i \in 1..access.size |-> 0]
               /\ memory.stack = access.pre.stack
               /\ globals = [reserved |-> TRUE, base |-> access.size]
        /\ access.pre.heap # <<>> =>
               /\ access.res = ErrR(HeapAlreadyUsed)
               /\ memory = access.pre
               /\ globals = access.pre_globals

GcdX == functions[1].program[1].y.v
GcdY == functions[1].program[2].y.v

\* d is the greatest common divisor of x and y.
IsGcd(d, x, y) ==
    /\ d >= 1 /\ x % d = 0 /\ y % d = 0
    /\ \A e \in (d + 1)..(IF x < y THEN x ELSE y) : x % e # 0 \/ y % e # 0

\* execute has returned something other than Ok.
GcdStopped == last.kind = "execute" /\ result # Success

\* C30: the run of the GCD program terminates; the first result that is
\* not Ok is End(0), and the result slot Loc(0) of the main frame then
\* holds gcd(x, y): 13 for x = 234 and y = 533.
C30_GcdRunEndsWithGcd ==
    /\ <>GcdStopped
    /\ [](GcdStopped =>
            /\ result = EndWith(0)
            /\ get_val(functions, S, Loc(0), "U16").ok
            /\ IsGcd(get_val(functions, S, Loc(0), "U16").val, GcdX, GcdY)
            /\ (GcdX = 234 /\ GcdY = 533) =>
                   get_val(functions, S, Loc(0), "U16") = OkR(13))

\* The run of the test has ended with 13 in the result slot.
C30_ThirteenFor234And533 ==
    /\ GcdStopped
    /\ GcdX = 234 /\ GcdY = 533
    /\ result = EndWith(0)
    /\ get_val(functions, S, Loc(0), "U16") = OkR(13)

(***************************************************************************)
(* The call protocol, continued.                                           *)
(***************************************************************************)
\* C33: prepared_call is true only when the call stack holds at least two
\* frames and the top frame has not been activated by Clf - also after a
\* Ret executed while a frame is prepared - so that an executing frame is
\* defined whenever the call stack is non-empty.
C33_PreparedAboveExecutingFrame ==
    /\ prepared_call =>
           /\ Len(call_stack) >= 2
           /\ history[Len(history)].clfs = 0
    /\ call_stack # <<>> => current_call(S).ok

\* C34: a Clf executed while no frame is prepared is rejected with an
\* error and changes nothing: neither the return address and return
\* program counter of an activated frame nor program_counter.
C34_ClfNeedsPreparedFrame ==
    (Stepped({"Clf"}) /\ ~last.pre.prepared_call) =>
        /\ Erred
        /\ S = last.pre

\* C36: once execute has returned End(code), a later call of execute
\* executes no instruction and leaves memory, the call stack and
\* program_counter unchanged.
C36_NothingRunsAfterEnd ==
    [][result.status = "End" =>
          /\ last'.op = NoOp
          /\ memory' = memory
          /\ call_stack' = call_stack
          /\ program_counter' = program_counter]_vars

(***************************************************************************)
(* Bounded resources.                                                      *)
(***************************************************************************)
\* C37: the stack page never exceeds its limit and the call-stack depth is
\* bounded, recursion being stopped by page-overflow, also for functions of
\* frame size 0 and across App steps that fail: the call stack never holds
\* more frames than the page has bytes for frames of a byte each.
C37_ResourcesBounded ==
    /\ Len(memory.stack) <= DepthStackLimit
    /\ Len(call_stack) <= DepthStackLimit

(***************************************************************************)
(* The Memory, continued.                                                  *)
(***************************************************************************)
\* C39: a successful set of a value of size s at address a leaves the
\* value's s bytes at a's location in the page a selects (the stack below
\* HEAP_BASE, the heap from it on) and changes no other byte of either
\* page; a failed set changes nothing; the stack limit is below HEAP_BASE,
\* so no stack byte has an address that selects the heap.
C39_SetWritesItsRangeOnly ==
    /\ Limits.stack.limit < HEAP_BASE
    /\ Len(memory.stack) <= Limits.stack.limit
    /\ access.kind = "set" =>
           /\ ~access.res.ok => memory = access.pre
           /\ access.res.ok =>
                  /\ \A f \in {"stack", "heap"} :
                         /\ Len(memory[f]) = Len(access.pre[f])
                         /\ \A i \in 1..Len(memory[f]) :
                                \/ memory[f][i] = access.pre[f][i]
                                \/ /\ (f = "stack") = (access.dest < HEAP_BASE)
                                   /\ OffsetOf(access.dest) < i
                                   /\ i <= OffsetOf(access.dest) + access.size
                  /\ InPage(memory, access.dest, access.size)
                  /\ \A i \in 1..access.size :
                         ByteAt(memory, access.dest, i) =
                             to_bytes(access.ot, access.val)[i]

\* A byte of the heap was set while the stack page held bytes too.
C39_HeapByteSet ==
    /\ access.kind = "set"
    /\ access.res.ok
    /\ access.dest = HEAP_BASE
    /\ access.pre.stack # <<>>
    /\ access.pre.heap = <<0>>
    /\ memory.heap = <<1>>

(***************************************************************************)
(* The byte code, continued.                                               *)
(***************************************************************************)
\* The values of DecodeError a decoder of a byte slice returns.
DecodeErrors ==
    {"UnexpectedEnd", "UnknownOpCode", "IncorrectVariant",
     "UndefinedOperation(OpType)", "UndefinedOperation(Kind)",
     "UndefinedOperation(ArithmeticMode)", "UndefinedOperation(ParameterMode)"}

\* The bytes handed to decode_op.
Decoded == IF codec.phase = "decoded" THEN codec.enc.val \o codec.tail ELSE codec.enc.val

\* C35: decode_op answers every byte sequence with an Op or with one of
\* the codec's error values, also when a long-form operand announces more
\* value bytes than a machine word holds; and the bytes of an instruction
\* cut short are answered with unexpected-end.
C35_DecodeAnswersEveryInput ==
    codec.phase \in {"decoded", "read"} =>
        /\ codec.dec.ok \/ codec.dec.err \in DecodeErrors
        /\ (codec.dec.ok /\ codec.dec.val.rest = <<>>) =>
               \A k \in 0..(Len(Decoded) - 1) :
                   decode_op(SubSeq(Decoded, 1, k)) = ErrR("UnexpectedEnd")
(***************************************************************************)
(* The Files table.                                                        *)
(***************************************************************************)
\* The files the table fs holds: its occupied cells and its current file.
FilesHeld(fs) ==
    Cardinality({i \in 1..Len(fs.files) : fs.files[i] # NoFile})
        + (IF fs.current.set THEN 1 ELSE 0)

\* The index idx designates a file of the table fs.
Designates(fs, idx) ==
    \/ idx < Len(fs.files) /\ fs.files[idx + 1] # NoFile
    \/ fs.current.set /\ fs.current.idx = idx

\* C38: count always equals the number of files the table holds (occupied
\* cells plus the current file), and every index open returned stays
\* closable - close returns that file - until close is called on it,
\* whatever set_current calls were made in between.
C38_CountAndClosable ==
    /\ files.count = FilesHeld(files)
    /\ \A idx \in 0..LIMIT :
           io.held[idx + 1] # 0 =>
               /\ close(files, idx).ok
               /\ close(files, idx).val.val.id = io.held[idx + 1]

\* C32: open returns the lowest index that designates no open file, never
\* the index of the current file; it fails with limit-exceeded, leaving the
\* table unchanged, if and only if LIMIT files are open.
C32_OpenLowestFreeUntilLimit ==
    io.kind = "open" =>
        /\ io.res.ok =>
               /\ ~Designates(io.pre, io.res.val)
               /\ \A idx \in 0..(io.res.val - 1) : Designates(io.pre, idx)
               /\ ~(io.pre.current.set /\ io.pre.current.idx = io.res.val)
               /\ Designates(files, io.res.val)
        /\ ~io.res.ok => io.res = ErrR("LimitExceeded") /\ files = io.pre
        /\ ~io.res.ok <=> FilesHeld(io.pre) = LIMIT

\* What read, write or flush must have left of the table pre, r being the
\* result of the File method on the file current in pre.
ActedOnCurrent(pre, r) ==
    /\ io.res = (IF r.ok THEN OkR(r.val.val) ELSE r)
    /\ files = (IF r.ok THEN [pre EXCEPT !.current.file = r.val.file] ELSE pre)

\* C31: at most one file is current at any time; read, write and flush act
\* on exactly the file selected by the most recent successful set_current,
\* and fail with current-is-not-set when no file is current: initially, and
\* after the current file has been closed.
C31_CurrentFileReceivesIO ==
    /\ files.current.set =>
           /\ files.current.file # NoFile
           /\ \A i \in 1..Len(files.files) : files.files[i].id # files.current.file.id
    /\ files.current.set <=> io.selected # 0
    /\ (io.kind = "close" /\ io.pre.current.set /\ io.pre.current.idx = io.idx) =>
           /\ io.res = OkR(io.pre.current.file)
           /\ ~files.current.set
    /\ io.kind \in {"read", "write", "flush"} =>
           IF io.selected = 0
           THEN io.res = ErrR("CurrentIsNotSet") /\ files = io.pre
           ELSE /\ io.pre.current.file.id = io.selected
                /\ CASE io.kind = "read" -> ActedOnCurrent(io.pre, file_read(io.pre.current.file))
                     [] io.kind = "write" -> ActedOnCurrent(io.pre, file_write(io.pre.current.file, io.val))
                     [] io.kind = "flush" -> ActedOnCurrent(io.pre, file_flush(io.pre.current.file))

\* A byte written after a second set_current is read back from the file
\* selected second; the file selected first, whose index is still held, is
\* in its cell no more.
C31_SecondSelectionRead ==
    /\ io.kind = "read"
    /\ io.res = OkR(1)
    /\ io.selected = 2
    /\ files.current.idx = 1
    /\ io.held[1] = 1
    /\ files.files[1] = NoFile

==========================================================================
